---- MODULE Spec2Model ----
(***************************************************************************)
(* Host side of the Shtrih-M KKT serial protocol: the framed transport of  *)
(* shtrihmfr/kkt.py (BaseKKT) and the codec helpers of shtrihmfr/utils.py. *)
(*                                                                         *)
(* A byte string is a sequence of naturals in 0..255; the empty read of a  *)
(* timed-out serial port is the empty sequence.  The device is the         *)
(* environment: at every read it may deliver a byte or nothing.           *)
(* The transport methods call one another in tail position, so the model   *)
(* keeps the parameters of the innermost call and the number of Python     *)
(* frames below it (the interpreter's recursion limit is finite).          *)
(***************************************************************************)
EXTENDS Integers, Sequences, FiniteSets, TLC

(***************************************************************************)
(* Bounds of the model.                                                    *)
(***************************************************************************)
\* Python frames the transport may stack before RecursionError
MaxDepth == 8
\* public calls (ask, disconnect) made on the session in one behaviour
MaxCalls == 2
\* the write counters of an exchange stop counting here
CountCap == 3

(***************************************************************************)
(* Program constants.                                                      *)
(***************************************************************************)
\* shtrihmfr.conf.MAX_ATTEMPT, imported by kkt.py
MAX_ATTEMPT == 2
\* wait_STX: "if stx_loop < 10"
STX_LOOP_MAX == 10
\* error byte "device busy" tested by ask
BUSY == 80

ENQ == <<5>>
STX == <<2>>
ACK == <<6>>
NAK == <<21>>

\* Python's None where a byte string is expected
None == <<-1>>
\* the timed-out read
Empty == <<>>

(***************************************************************************)
(* utils.py                                                                *)
(***************************************************************************)
RECURSIVE BitXor(_, _)
BitXor(a, b) ==
    IF a = 0 THEN b
    ELSE IF b = 0 THEN a
    ELSE (((a % 2) + (b % 2)) % 2) + (2 * BitXor(a \div 2, b \div 2))

\* the loop "for s in string: result ^= s" over the bytes lo..hi
RECURSIVE XorFold(_, _, _, _)
XorFold(string, lo, hi, result) ==
    IF lo > hi THEN result
    ELSE XorFold(string, lo + 1, hi, BitXor(result, string[lo]))

\* the same loop from byte lo to the end, eight bytes at a time (the test on
\* r makes the evaluator finish a block before it starts the next, which
\* keeps its stack shallow on a frame of 258 bytes)
RECURSIVE XorLoop(_, _, _)
XorLoop(string, lo, result) ==
    IF lo > Len(string) THEN result
    ELSE LET hi == IF lo + 7 < Len(string) THEN lo + 7 ELSE Len(string)
             r == XorFold(string, lo, hi, result)
         IN  IF r = 0 THEN XorLoop(string, hi + 1, 0)
             ELSE XorLoop(string, hi + 1, r)

\* a checksum that leaves the first byte (LEN) out
get_control_summ_skip_first(string) == << XorLoop(string, 2, 0) >>

get_control_summ(string) == << XorLoop(string, 1, 0) >>

\* force_bytes of a bytes object is the object itself
force_bytes(s) == s

\* int4.pack(password) for 0 <= password <= 9999: four little-endian bytes
password_prapare(password) ==
    << password % 256, (password \div 256) % 256, 0, 0 >>

\* Python slices response[a:b] (0-based, end exclusive), clipped to the string
Slice(str, a, b) ==
    LET hi == IF b < Len(str) THEN b ELSE Len(str)
    IN  IF a >= hi THEN <<>> ELSE SubSeq(str, a + 1, hi)

(***************************************************************************)
(* Python values of the command layer.  An int is not bounded: it is held  *)
(* as two limbs, hi * Limb + lo with 0 <= lo < Limb (hi < 0 for a negative *)
(* int).  A number argument (float or Decimal) is the decimal it is        *)
(* written as: int + frac / 10000 with 0 <= frac < 10000.  A str is the    *)
(* sequence of its code points.  An argument that should be a list carries *)
(* its type.                                                               *)
(***************************************************************************)
Limb == 100000

Big(hi, lo) == [hi |-> hi + (lo \div Limb), lo |-> lo % Limb]
BigLess(a, b) == a.hi < b.hi \/ (a.hi = b.hi /\ a.lo < b.lo)
BigAdd(a, b) == Big(a.hi + b.hi, a.lo + b.lo)
BigSub(a, b) == Big(a.hi - b.hi, a.lo - b.lo)
Mul256(v) == Big(v.hi * 256, v.lo * 256)
Mod256(v) == ((v.hi % 256) * Limb + v.lo) % 256
Div256(v) == [hi |-> v.hi \div 256,
              lo |-> ((v.hi % 256) * Limb + v.lo) \div 256]

Dec(int, frac) == [int |-> int, frac |-> frac]

\* Python 3 round(): to the nearest integer, a tie to the even one
RoundHalfEven(num, den) ==
    LET q == num \div den
        r == num % den
    IN  IF 2 * r < den THEN q
        ELSE IF 2 * r > den THEN q + 1
        ELSE IF q % 2 = 0 THEN q ELSE q + 1

RECURSIVE Pow10(_)
Pow10(n) == IF n = 0 THEN 1 ELSE 10 * Pow10(n - 1)

\* int(round(float(money) * 10**digits)), for digits <= 5
money2integer(money, digits) ==
    LET scale == Pow10(digits)
        p == Limb \div scale
    IN  Big(money.int \div p,
            (money.int % p) * scale
                + RoundHalfEven(money.frac * scale, 10000))

\* a count scaled as money is, by 100
count2integer_two_digits(count) == money2integer(count, 2)

\* money2integer(count, digits=3) * coefficient, coefficient = 1
count2integer(count) == money2integer(count, 3)

\* round(float(integer) / 10**digits, digits): the amount in units of 10**-2
integer2money(integer) == [scaled |-> integer, digits |-> 2]

\* the n low bytes of a non-negative int, low byte first
RECURSIVE ToBytes(_, _)
ToBytes(v, n) ==
    IF n = 0 THEN <<>> ELSE << Mod256(v) >> \o ToBytes(Div256(v), n - 1)

\* the int a byte string is, low byte first
RECURSIVE FromBytes(_)
FromBytes(b) ==
    IF b = <<>> THEN Big(0, 0)
    ELSE BigAdd(Mul256(FromBytes(Tail(b))), Big(0, Head(b)))

RECURSIVE Pow256(_)
Pow256(n) == IF n = 0 THEN Big(0, 1) ELSE Mul256(Pow256(n - 1))

\* Int5.pack: value.to_bytes(5, byteorder='little', signed=True) raises
\* OverflowError outside -2**39 .. 2**39 - 1
int5_fits(value) ==
    /\ BigLess(BigAdd(value, value), Pow256(5))
    /\ ~BigLess(BigAdd(value, value), BigSub(Big(0, 0), Pow256(5)))

int5_pack(value) ==
    ToBytes(IF value.hi < 0 THEN BigAdd(value, Pow256(5)) ELSE value, 5)

\* 5 bytes read as an unsigned int
int5_unpack_unsigned(value) == FromBytes(value)

\* Int5.unpack: int.from_bytes(value, byteorder='little', signed=True)
int5_unpack(value) ==
    LET n == Len(value)
        u == FromBytes(value)
    IN  IF n > 0 /\ value[n] >= 128 THEN BigSub(u, Pow256(n)) ELSE u

\* int2 = Struct(b'h', length=2): two bytes, low byte first on the hosts the
\* driver runs on; value is a short
int2_pack(value) ==
    LET v == value.hi * Limb + value.lo
        w == v % 65536
    IN  << w % 256, w \div 256 >>

digits2string(digits) == digits

\* text.encode(CODE_PAGE): the code page is WIN1251 (shtrihmfr.conf), one
\* byte per character: ASCII as it is, the Cyrillic letters U+0410..U+044F at
\* 0xC0..0xFF; a character of Unencodable has no byte in the code page
Unencodable == { 20013 }
Encodable(text) == \A i \in 1..Len(text) : text[i] \notin Unencodable
encode(text) ==
    [i \in 1..Len(text) |->
        IF text[i] >= 1040 /\ text[i] <= 1103 THEN text[i] - 848 ELSE text[i]]

\* bytes.ljust(width, fill)
ljust(b, width, fill) ==
    IF Len(b) >= width THEN b
    ELSE b \o [i \in 1..(width - Len(b)) |-> fill]

(***************************************************************************)
(* State.  The session's attributes (kkt.py 125-149), the position of the  *)
(* running ask, and what the exchange has put on the wire so far.          *)
(***************************************************************************)
VARIABLES
    conn,        \* self._conn: "open", or "closed" (no attribute, or None)
    opened,      \* the running (or last) public call has constructed a Serial
    password,    \* self.password
    command,     \* self._command
    params,      \* self._params
    quick,       \* self._quick
    request,     \* self._request
    response,    \* self._response
    args,        \* ask's own arguments while it runs
    pc,          \* "idle", or the read the host is blocked in
    previous,    \* parameter previous of the innermost call
    stx_loop,    \* parameter stx_loop of the innermost call
    attempt,     \* send_request's loop variable i
    loop_i,      \* ask's loop variable i
    depth,       \* transport frames on the Python stack
    outcome,     \* how the last public call ended
    wire,        \* what the host has written in this exchange
    dev,         \* response frames the host has read and accepted in this exchange
    accepted,    \* the response frame the host last decoded and ACKed
    calls,       \* public calls made so far
    method,      \* the command method of KKT that is running or ran last
    result,      \* what that method returned
    sent,        \* the response frame the device last put on the link
    klass,       \* the attributes of class BaseKKT
    peer,        \* a second session of the process, as a record like Cur
    alone,       \* that second session in a process that has no other session
    http         \* the HTTP requests being handled, one per session

\* one session
session == << conn, opened, password, command, params, quick, request,
              response, args, pc, previous, stx_loop, attempt, loop_i, depth,
              outcome, wire, dev, accepted, calls, method, result >>
\* the device's bookkeeping and the rest of the process
env == << sent, klass, peer, alone, http >>

vars == << conn, opened, password, command, params, quick, request, response,
           args, pc, previous, stx_loop, attempt, loop_i, depth, outcome,
           wire, dev, accepted, calls, method, result,
           sent, klass, peer, alone, http >>

NoResponse == [set |-> FALSE, command |-> None, error |-> 0, data |-> None]
NoArgs == [command |-> 0, params |-> None, without_password |-> FALSE]
NoOutcome == [op |-> "", kind |-> "none", exc |-> "", code |-> 0,
              data |-> None, error |-> 0, command |-> None]
NoFrame == [set |-> FALSE, len |-> 0, body |-> <<>>, lrc |-> <<>>]
NoWire == [enq |-> 0, req |-> 0, ack |-> 0, nak |-> 0]
NoDev == [frames |-> 0, verified |-> 0]
\* no command method: ask or disconnect called directly
NoMethod == [name |-> ""]
NoResult == [set |-> FALSE]

\* the current state as one record, so that a handler is a function of it
Cur ==
    [conn |-> conn, opened |-> opened, password |-> password,
     command |-> command, params |-> params, quick |-> quick,
     request |-> request, response |-> response, args |-> args, pc |-> pc,
     previous |-> previous, stx_loop |-> stx_loop, attempt |-> attempt,
     loop_i |-> loop_i, depth |-> depth, outcome |-> outcome, wire |-> wire,
     dev |-> dev, accepted |-> accepted, calls |-> calls,
     method |-> method, result |-> result]

Store(s) ==
    /\ conn' = s.conn          /\ opened' = s.opened
    /\ password' = s.password  /\ command' = s.command
    /\ params' = s.params      /\ quick' = s.quick
    /\ request' = s.request    /\ response' = s.response
    /\ args' = s.args          /\ pc' = s.pc
    /\ previous' = s.previous  /\ stx_loop' = s.stx_loop
    /\ attempt' = s.attempt    /\ loop_i' = s.loop_i
    /\ depth' = s.depth        /\ outcome' = s.outcome
    /\ wire' = s.wire          /\ dev' = s.dev
    /\ accepted' = s.accepted  /\ calls' = s.calls
    /\ method' = s.method      /\ result' = s.result

\* a step of the session that nothing else in the process sees
Commit(s) == Store(s) /\ UNCHANGED env

Sat(n) == IF n > CountCap THEN CountCap ELSE n

(***************************************************************************)
(* Control: raising, returning to the caller, writing, calling.            *)
(***************************************************************************)
\* the locals of the finished call are gone
Unwind(s) ==
    [s EXCEPT !.pc = "idle", !.depth = 0, !.previous = FALSE, !.stx_loop = 0,
              !.attempt = 0, !.loop_i = 0, !.args = NoArgs]

Raise(s, exc, code) ==
    [Unwind(s) EXCEPT !.outcome.kind = "raised", !.outcome.exc = exc,
                      !.outcome.code = code]

Raised(s) == s.outcome.kind = "raised"

\* a public call begins: its outcome is open
Begin(s, op) ==
    [s EXCEPT !.calls = @ + 1, !.opened = FALSE,
              !.outcome = [NoOutcome EXCEPT !.op = op],
              !.method = NoMethod, !.result = NoResult]

\* self._write(x): one more ENQ, request frame, ACK or NAK on the wire
Write(s, what) == [s EXCEPT !.wire[what] = Sat(@ + 1)]

(***************************************************************************)
(* The serial handle: conn, connect, disconnect (kkt.py 155-184).          *)
(***************************************************************************)
\* serial.Serial(...) raises SerialException when the port cannot be opened
connect(s, portOk) ==
    IF portOk
    THEN [s EXCEPT !.conn = "open", !.opened = TRUE]
    ELSE Raise(s, "ConnectionError", 0)

\* the property conn: connects when there is no handle
conn_property(s, portOk) ==
    IF s.conn = "open" THEN s ELSE connect(s, portOk)

\* "if self.conn:" reads the property, then closes what it returned
disconnect(s, portOk) ==
    LET s1 == conn_property(s, portOk)
    IN  IF Raised(s1) THEN s1 ELSE [s1 EXCEPT !.conn = "closed"]

clear_vars(s) ==
    [s EXCEPT !.command = None, !.params = None, !.quick = FALSE,
              !.request = None, !.response = NoResponse]

(***************************************************************************)
(* Framing (kkt.py 248-259).                                               *)
(***************************************************************************)
\* the frame create_request stores in self._request
Frame(cmd, prm) ==
    LET data == IF prm # None THEN cmd \o force_bytes(prm) ELSE cmd
        length == Len(data)
        content == << length >> \o data
        control_summ == get_control_summ(content)
    IN  STX \o content \o control_summ

create_request(s, cmd, prm) ==
    [s EXCEPT !.command = cmd, !.params = prm, !.response = NoResponse,
              !.request = Frame(cmd, prm)]

(***************************************************************************)
(* The transport calls up to their first read.                             *)
(***************************************************************************)
\* send_ENQ, lines 229-231: write ENQ, then read
send_ENQ(s, loop, prev) ==
    IF s.depth >= MaxDepth THEN Raise(s, "RecursionError", 0)
    ELSE [Write(s, "enq") EXCEPT !.depth = @ + 1, !.stx_loop = loop,
                                 !.previous = prev, !.pc = "enq"]

\* a send_request that writes the frame twice before it reads
send_request_twice(s) ==
    IF s.depth >= MaxDepth THEN Raise(s, "RecursionError", 0)
    ELSE [Write(Write(s, "req"), "req") EXCEPT
              !.depth = @ + 1, !.attempt = 0, !.stx_loop = 0,
              !.previous = FALSE, !.pc = "req"]

\* send_request, lines 261-265, first iteration: write the frame, flush, read
send_request(s) ==
    IF s.depth >= MaxDepth THEN Raise(s, "RecursionError", 0)
    ELSE [Write(s, "req") EXCEPT !.depth = @ + 1, !.attempt = 0,
                                 !.stx_loop = 0, !.previous = FALSE,
                                 !.pc = "req"]

\* wait_STX, lines 326-327
wait_STX(s, loop, prev) ==
    IF s.depth >= MaxDepth THEN Raise(s, "RecursionError", 0)
    ELSE [s EXCEPT !.depth = @ + 1, !.stx_loop = loop, !.previous = prev,
                   !.pc = "stx"]

\* read_response, lines 275-283: the three reads of a frame
read_response(s, prev) ==
    IF s.depth >= MaxDepth THEN Raise(s, "RecursionError", 0)
    ELSE [s EXCEPT !.depth = @ + 1, !.previous = prev, !.pc = "resp"]

(***************************************************************************)
(* ask (kkt.py 202-227).                                                   *)
(***************************************************************************)
\* the codes of the error catalog (shtrihmfr.protocol FN_BUGS and BUGS): every
\* non-zero error byte has an entry
ErrorCatalog == { code \in 0..255 : code # 0 }

\* raise KktError(value), lines 46-57 and 223: the constructor looks the code
\* up in the catalog, and a code without an entry is a KeyError
KktError(s, value) ==
    IF value \in ErrorCatalog THEN Raise(s, "KktError", value)
    ELSE Raise(s, "KeyError", 0)

\* bytes.decode(CODE_PAGE) of a device name in ASCII and Cyrillic letters
decode(b) ==
    [i \in 1..Len(b) |-> IF b[i] >= 192 THEN b[i] + 848 ELSE b[i]]

\* the command method after its call of ask has returned (data, error,
\* command): lines 355-356, 403-404, 549-555, 594-595, 644-645, 735-736, 783
\* and 835-844
method_return(s) ==
    LET data == s.outcome.data
        name == s.method.name
    IN  IF name = "x8E"
        THEN [s EXCEPT !.result =
                 [set |-> TRUE,
                  odd |-> integer2money(
                              int5_unpack(Slice(data, 1, Len(data))))]]
        ELSE IF name = "xFC"
        THEN IF Len(data) < 6 THEN Raise(s, "IndexError", 0)
             ELSE [s EXCEPT !.result =
                      [set |-> TRUE, device_type |-> data[1],
                       device_subtype |-> data[2],
                       protocol_version |-> data[3],
                       protocol_subversion |-> data[4],
                       device_model |-> data[5],
                       device_language |-> data[6],
                       device_name |-> decode(Slice(data, 6, Len(data)))]]
        ELSE IF data = <<>> THEN Raise(s, "IndexError", 0)
        ELSE IF name = "x85"
        THEN [s EXCEPT !.result =
                 [set |-> TRUE, operator |-> data[1],
                  odd |-> integer2money(int5_unpack(Slice(data, 1, 6)))]]
        ELSE [s EXCEPT !.result = [set |-> TRUE, operator |-> data[1]]]

\* a return that never closes the handle
ask_return_keep_open(s) ==
    LET r == s.response
    IN  [Unwind(s) EXCEPT !.outcome.kind = "returned",
                          !.outcome.data = r.data,
                          !.outcome.error = r.error,
                          !.outcome.command = r.command]

\* lines 225-227: close unless quick, return (data, error, command)
ask_return(s) ==
    LET r == s.response
        s1 == IF ~s.quick THEN disconnect(s, TRUE) ELSE s
        s2 == [Unwind(s1) EXCEPT !.outcome.kind = "returned",
                                 !.outcome.data = r.data,
                                 !.outcome.error = r.error,
                                 !.outcome.command = r.command]
    IN  IF s2.method.name = "" THEN s2 ELSE method_return(s2)

\* a loop body that returns whatever record it got
ask_loop_no_check(s) == ask_return([s EXCEPT !.depth = 0])

\* a loop body that raises on the busy code too
ask_loop_no_retry(s) ==
    LET r == s.response
        s0 == [s EXCEPT !.depth = 0]
    IN  IF ~r.set THEN Raise(s0, "TypeError", 0)
        ELSE IF r.error # 0 THEN KktError(s0, r.error)
        ELSE ask_return(s0)

\* lines 218-224: the body of ask's loop after send_ENQ() has returned
ask_loop(s) ==
    LET r == s.response
        s0 == [s EXCEPT !.depth = 0]
    IN  IF ~r.set THEN Raise(s0, "TypeError", 0)
        ELSE IF r.error # 0 /\ r.error = BUSY
        THEN IF s.loop_i + 1 < MAX_ATTEMPT
             THEN send_ENQ([s0 EXCEPT !.loop_i = @ + 1], 0, FALSE)
             ELSE ask_return(s0)
        ELSE IF r.error # 0 THEN KktError(s0, r.error)
        ELSE ask_return(s0)

\* lines 208-217: after the cleanup probe has returned
ask_prepared(s) ==
    LET prm == IF s.args.params = None /\ ~s.args.without_password
               THEN s.password ELSE s.args.params
        cmd == << s.args.command >>
        s1 == create_request([s EXCEPT !.depth = 0], cmd, prm)
    IN  send_ENQ([s1 EXCEPT !.loop_i = 0], 0, FALSE)

\* an ask that keeps the quick flag of the exchange before it
ask_body_keep_quick(s, cmd, prm, without_password, q, portOk) ==
    LET s0 == [s EXCEPT !.wire = NoWire, !.dev = NoDev, !.accepted = NoFrame,
                        !.args = [command |-> cmd, params |-> prm,
                                  without_password |-> without_password]]
        s1 == conn_property(s0, portOk)
    IN  IF Raised(s1) THEN s1
        ELSE send_ENQ([s1 EXCEPT !.quick = s.quick \/ q], 0, TRUE)

\* lines 202-206: up to the read of the cleanup probe
ask_body(s, cmd, prm, without_password, q, portOk) ==
    LET s0 == [s EXCEPT !.wire = NoWire, !.dev = NoDev, !.accepted = NoFrame,
                        !.args = [command |-> cmd, params |-> prm,
                                  without_password |-> without_password]]
        s1 == conn_property(s0, portOk)
    IN  IF Raised(s1) THEN s1
        ELSE send_ENQ([clear_vars(s1) EXCEPT !.quick = q], 0, TRUE)

\* the public call ask(...)
ask(s, cmd, prm, without_password, q, portOk) ==
    ask_body(Begin(s, "ask"), cmd, prm, without_password, q, portOk)

\* the public call disconnect()
disconnect_call(s, portOk) ==
    LET s0 == Begin(s, "disconnect")
        s1 == disconnect(s0, portOk)
    IN  IF Raised(s1) THEN s1
        ELSE [Unwind(s1) EXCEPT !.outcome.kind = "returned"]

(***************************************************************************)
(* The command methods of KKT (kkt.py 340-844) up to their call of ask.    *)
(***************************************************************************)
\* a command method begins: s.method is the method and its arguments
MethodBegin(s, m) ==
    [Begin(s, m.name) EXCEPT !.method = m, !.wire = NoWire, !.dev = NoDev,
                             !.accepted = NoFrame]

\* a range check that lets 10000000000 through
OutOfRange_above_limit(v) ==
    BigLess(v, Big(0, 0)) \/ BigLess(Big(100000, 0), v)

\* "s < 0 or s > 9999999999"
OutOfRange(v) == BigLess(v, Big(0, 0)) \/ BigLess(Big(99999, 99999), v)

\* len(x) raises TypeError on an object without a length
Sized(x) == x.type \in { "list", "tuple", "str" }

\* the checks of text and taxes, the same lines in _x8count (385-393), x85
\* (528-536) and _x8summa (578-586): the exception they raise, or ""
check_text_taxes(text, taxes) ==
    IF Len(text) > 40 THEN "KktError"
    ELSE IF ~Sized(taxes) THEN "TypeError"
    ELSE IF Len(taxes.items) # 4 THEN "KktError"
    ELSE IF taxes.type \notin { "list", "tuple" } THEN "KktError"
    ELSE IF \E i \in 1..Len(taxes.items) : taxes.items[i] \notin 0..4
    THEN "KktError"
    ELSE ""

\* bytes.ljust(width, chr(code)): the fill is a str, not a byte
ljust_chr(b, width, code) == [exc |-> "TypeError"]

\* bytes + chr(code)
concat_chr(b, code) == [exc |-> "TypeError"]

\* _x8count, lines 373-402
x8count(s, cmd, count, price, text, department, taxes, portOk) ==
    LET s0 == MethodBegin(s, [name |-> "x8count", command |-> cmd,
                              count |-> count, price |-> price,
                              text |-> text, department |-> department,
                              taxes |-> taxes])
        c == count2integer(count)
        p == money2integer(price, 2)
        v == check_text_taxes(text, taxes)
    IN  IF OutOfRange(c) THEN Raise(s0, "KktError", 0)
        ELSE IF OutOfRange(p) THEN Raise(s0, "KktError", 0)
        ELSE IF department \notin 0..16 THEN Raise(s0, "KktError", 0)
        ELSE IF v # "" THEN Raise(s0, v, 0)
        ELSE IF ~Encodable(text) THEN Raise(s0, "UnicodeEncodeError", 0)
        ELSE ask_body(s0, cmd,
                      s.password \o int5_pack(c) \o int5_pack(p)
                          \o << department >> \o digits2string(taxes.items)
                          \o ljust(encode(text), 40, 0),
                      FALSE, TRUE, portOk)

x80(s, count, price, text, department, taxes, portOk) ==
    x8count(s, 128, count, price, text, department, taxes, portOk)
x81(s, count, price, text, department, taxes, portOk) ==
    x8count(s, 129, count, price, text, department, taxes, portOk)
x82(s, count, price, text, department, taxes, portOk) ==
    x8count(s, 130, count, price, text, department, taxes, portOk)
x83(s, count, price, text, department, taxes, portOk) ==
    x8count(s, 131, count, price, text, department, taxes, portOk)
x84(s, count, price, text, department, taxes, portOk) ==
    x8count(s, 132, count, price, text, department, taxes, portOk)

\* x85, lines 512-548
x85(s, cash, summs, discount, taxes, text, portOk) ==
    LET s0 == MethodBegin(s, [name |-> "x85", command |-> 133,
                              cash |-> cash, summs |-> summs,
                              discount |-> discount, taxes |-> taxes,
                              text |-> text])
        summa1 == money2integer(
                      IF summs[1] # Dec(0, 0) THEN summs[1] ELSE cash, 2)
        summa2 == money2integer(summs[2], 2)
        summa3 == money2integer(summs[3], 2)
        summa4 == money2integer(summs[4], 2)
        d == money2integer(discount, 2)
        v == check_text_taxes(text, taxes)
    IN  IF \E x \in { summa1, summa2, summa3, summa4 } : OutOfRange(x)
        THEN Raise(s0, "KktError", 0)
        ELSE IF BigLess(d, Big(0, -9999)) \/ BigLess(Big(0, 9999), d)
        THEN Raise(s0, "KktError", 0)
        ELSE IF v # "" THEN Raise(s0, v, 0)
        ELSE IF ~Encodable(text) THEN Raise(s0, "UnicodeEncodeError", 0)
        ELSE ask_body(s0, 133,
                      s.password \o int5_pack(summa1) \o int5_pack(summa2)
                          \o int5_pack(summa3) \o int5_pack(summa4)
                          \o int2_pack(d) \o digits2string(taxes.items)
                          \o ljust(encode(text), 40, 0),
                      FALSE, FALSE, portOk)

\* _x8summa, lines 571-593
x8summa(s, cmd, summa, text, taxes, portOk) ==
    LET s0 == MethodBegin(s, [name |-> "x8summa", command |-> cmd,
                              summa |-> summa, text |-> text,
                              taxes |-> taxes])
        m == money2integer(summa, 2)
        v == check_text_taxes(text, taxes)
        padded == ljust_chr(encode(text), 40, 0)
    IN  IF OutOfRange(m) THEN Raise(s0, "KktError", 0)
        ELSE IF v # "" THEN Raise(s0, v, 0)
        ELSE IF ~Encodable(text) THEN Raise(s0, "UnicodeEncodeError", 0)
        ELSE IF padded.exc # "" THEN Raise(s0, padded.exc, 0)
        ELSE ask_body(s0, cmd,
                      s.password \o int5_pack(m)
                          \o digits2string(taxes.items) \o padded.value,
                      FALSE, TRUE, portOk)

x86(s, summa, text, taxes, portOk) == x8summa(s, 134, summa, text, taxes, portOk)
x87(s, summa, text, taxes, portOk) == x8summa(s, 135, summa, text, taxes, portOk)
x8A(s, summa, text, taxes, portOk) == x8summa(s, 138, summa, text, taxes, portOk)
x8B(s, summa, text, taxes, portOk) == x8summa(s, 139, summa, text, taxes, portOk)

\* x40, lines 351-354: ask(command, self.admin_password)
x40(s, admin_password, portOk) ==
    ask_body(MethodBegin(s, [name |-> "x40", command |-> 64]),
             64, admin_password, FALSE, FALSE, portOk)

\* x41, lines 366-369
x41(s, admin_password, portOk) ==
    ask_body(MethodBegin(s, [name |-> "x41", command |-> 65]),
             65, admin_password, FALSE, FALSE, portOk)

\* x88, lines 642-643: ask(command)
x88(s, portOk) ==
    ask_body(MethodBegin(s, [name |-> "x88", command |-> 136]),
             136, None, FALSE, FALSE, portOk)

\* x89, lines 656-657
x89(s, portOk) ==
    ask_body(MethodBegin(s, [name |-> "x89", command |-> 137]),
             137, None, FALSE, FALSE, portOk)

\* x8D, lines 728-734
x8D(s, document_type, portOk) ==
    LET s0 == MethodBegin(s, [name |-> "x8D", command |-> 141,
                              document_type |-> document_type])
        prm == concat_chr(s.password, document_type)
    IN  IF document_type \notin 0..3 THEN Raise(s0, "KktError", 0)
        ELSE IF prm.exc # "" THEN Raise(s0, prm.exc, 0)
        ELSE ask_body(s0, 141, prm.value, FALSE, FALSE, portOk)

\* "for val in payments: params += int5.pack(...)"
RECURSIVE JoinPacked(_)
JoinPacked(sums) ==
    IF sums = <<>> THEN <<>>
    ELSE int5_pack(Head(sums)) \o JoinPacked(Tail(sums))

\* x8E, lines 770-781
x8E(s, payments, taxes, text, discount_percent, portOk) ==
    LET s0 == MethodBegin(s, [name |-> "x8E", command |-> 142,
                              payments |-> payments, taxes |-> taxes,
                              text |-> text,
                              discount_percent |-> discount_percent])
        sums == [i \in 1..Len(payments) |-> money2integer(payments[i], 2)]
        packed == JoinPacked(sums)
        tax == concat_chr(s.password \o packed
                              \o int2_pack(Big(0, discount_percent)),
                          taxes.items[1])
        padded == ljust_chr(encode(text), 40, 0)
    IN  IF Len(payments) # 16 THEN Raise(s0, "AssertionError", 0)
        ELSE IF \E i \in 1..16 : ~int5_fits(sums[i])
        THEN Raise(s0, "OverflowError", 0)
        ELSE IF discount_percent \notin -32768..32767
        THEN Raise(s0, "struct.error", 0)
        ELSE IF ~Sized(taxes) THEN Raise(s0, "TypeError", 0)
        ELSE IF Len(taxes.items) # 4 THEN Raise(s0, "AssertionError", 0)
        ELSE IF tax.exc # "" THEN Raise(s0, tax.exc, 0)
        ELSE IF ~Encodable(text) THEN Raise(s0, "UnicodeEncodeError", 0)
        ELSE IF padded.exc # "" THEN Raise(s0, padded.exc, 0)
        ELSE ask_body(s0, 142, tax.value \o padded.value, FALSE, FALSE,
                      portOk)

\* xFC, lines 832-834: ask(command, without_password=True)
xFC(s, portOk) ==
    ask_body(MethodBegin(s, [name |-> "xFC", command |-> 252]),
             252, None, TRUE, FALSE, portOk)

(***************************************************************************)
(* The transport calls from a read on.  A one-byte read that times out is  *)
(* retried once: first is what the first read returns, second the retry.   *)
(***************************************************************************)
Retried(first, second) == IF first = Empty THEN second ELSE first

\* a probe that takes silence for a busy device and asks again
send_ENQ_answer_retry_silence(s, first, second) ==
    LET answer == Retried(first, second)
    IN  IF answer = NAK
        THEN IF s.previous THEN ask_prepared(s) ELSE send_request(s)
        ELSE IF answer = ACK THEN wait_STX(s, s.stx_loop, s.previous)
        ELSE send_ENQ(s, 0, s.previous)

\* a probe that sends the request on NAK whether or not it is a cleanup
send_ENQ_answer_ignore_previous(s, first, second) ==
    LET answer == Retried(first, second)
    IN  IF answer = NAK THEN send_request(s)
        ELSE IF answer = ACK THEN wait_STX(s, s.stx_loop, s.previous)
        ELSE IF answer = Empty
        THEN Raise([s EXCEPT !.command = None], "ConnectionError", 0)
        ELSE send_ENQ(s, 0, s.previous)

\* send_ENQ, lines 231-246
send_ENQ_answer(s, first, second) ==
    LET answer == Retried(first, second)
        s0 == s
    IN  IF answer = NAK
        THEN IF s.previous THEN ask_prepared(s0) ELSE send_request(s0)
        ELSE IF answer = ACK THEN wait_STX(s0, s.stx_loop, s.previous)
        ELSE IF answer = Empty
        THEN Raise([s0 EXCEPT !.command = None], "ConnectionError", 0)
        ELSE send_ENQ(s0, 0, s.previous)

\* a send_request that takes silence as it takes a byte other than ACK
send_request_answer_resend_on_silence(s, first, second) ==
    LET answer == Retried(first, second)
    IN  IF answer = ACK THEN wait_STX(s, 0, FALSE)
        ELSE IF s.attempt + 1 < MAX_ATTEMPT
        THEN [Write(s, "req") EXCEPT !.attempt = @ + 1]
        ELSE send_ENQ(s, 0, FALSE)

\* send_request, lines 265-273
send_request_answer(s, first, second) ==
    LET answer == Retried(first, second)
        s0 == s
    IN  IF answer = Empty THEN send_ENQ(s0, 0, FALSE)
        ELSE IF answer = ACK THEN wait_STX(s0, 0, FALSE)
        ELSE IF s.attempt + 1 < MAX_ATTEMPT
        THEN [Write(s0, "req") EXCEPT !.attempt = @ + 1]
        ELSE send_ENQ(s0, 0, FALSE)

\* wait_STX, lines 327-338
wait_STX_answer(s, first, second) ==
    LET answer == Retried(first, second)
        s0 == s
    IN  IF answer = Empty THEN Raise(s0, "RuntimeError", 0)
        ELSE IF answer # STX
        THEN IF s.stx_loop < STX_LOOP_MAX
             THEN send_ENQ(s0, s.stx_loop + 1, s.previous)
             ELSE Raise(s0, "ConnectionError", 0)
        ELSE read_response(s0, s.previous)

\* the assertion left out
command_matches_any(cmd, response_command) == TRUE

\* line 299: assert self._command == response_command
command_matches(cmd, response_command) == cmd = response_command

\* a read_response that does not compare the checksum
read_response_answer_no_checksum(s, lenRead, body, lrcRead) ==
    IF lenRead = Empty THEN Raise(s, "TypeError", 0)
    ELSE
    LET length == lenRead[1]
        command_length == Len(s.command)
        response_command == Slice(body, 0, command_length)
        error == Slice(body, command_length, command_length + 1)
        data == Slice(body, command_length + 1, Len(body))
        s0 == [s EXCEPT !.dev.frames =
                   IF s.previous THEN @ ELSE Sat(@ + 1)]
    IN  IF s.previous THEN ask_prepared(Write(s0, "ack"))
        ELSE IF Len(body) # length THEN send_request(Write(s0, "nak"))
        ELSE IF ~command_matches(s.command, response_command)
        THEN Raise(s0, "AssertionError", 0)
        ELSE IF error = Empty THEN Raise(Write(s0, "ack"), "TypeError", 0)
        ELSE ask_loop(
            [Write(s0, "ack") EXCEPT
                !.response = [set |-> TRUE, command |-> response_command,
                              error |-> error[1], data |-> data],
                !.accepted = [set |-> TRUE, len |-> length, body |-> body,
                              lrc |-> lrcRead],
                !.dev.verified = Sat(@ + 1)])

\* read_response, lines 276-324: lenRead, body and lrcRead are what the three
\* reads return (body has at most lenRead[1] bytes)
read_response_answer(s, lenRead, body, lrcRead) ==
    IF lenRead = Empty THEN Raise(s, "TypeError", 0)
    ELSE
    LET length == lenRead[1]
        resp == body
        response_length == Len(resp)
        response_control == lrcRead
        command_length == Len(s.command)
        response_command == Slice(resp, 0, command_length)
        error == Slice(resp, command_length, command_length + 1)
        data == Slice(resp, command_length + 1, response_length)
        control_summ == get_control_summ(
            << response_length >> \o response_command \o error \o data)
        s0 == [s EXCEPT !.dev.frames =
                   IF s.previous THEN @ ELSE Sat(@ + 1)]
    IN  IF s.previous THEN ask_prepared(Write(s0, "ack"))
        ELSE IF response_length # length THEN send_request(Write(s0, "nak"))
        ELSE IF ~command_matches(s.command, response_command)
        THEN Raise(s0, "AssertionError", 0)
        ELSE IF response_control # control_summ
        THEN send_request(Write(s0, "nak"))
        ELSE IF error = Empty THEN Raise(Write(s0, "ack"), "TypeError", 0)
        ELSE ask_loop(
            [Write(s0, "ack") EXCEPT
                !.response = [set |-> TRUE, command |-> response_command,
                              error |-> error[1], data |-> data],
                !.accepted = [set |-> TRUE, len |-> length, body |-> body,
                              lrc |-> lrcRead],
                !.dev.verified = Sat(@ + 1)])

(***************************************************************************)
(* The environment: the caller's arguments and the device's bytes.         *)
(***************************************************************************)
Passwords == { password_prapare(30) }
AdminPassword == password_prapare(30)

\* ask's arguments as the command layer passes them: x88 (the operator
\* password by default), xFC (no password), x40 (explicit parameters), and a
\* quick call with explicit parameters as _x8count and _x8summa make it (x86,
\* its parameter bytes cut short)
AskArgs ==
    { [command |-> 136, params |-> None, without_password |-> FALSE,
       quick |-> FALSE],
      [command |-> 252, params |-> None, without_password |-> TRUE,
       quick |-> FALSE],
      [command |-> 64, params |-> AdminPassword, without_password |-> FALSE,
       quick |-> FALSE],
      [command |-> 134, params |-> password_prapare(30) \o << 1 >>,
       without_password |-> FALSE, quick |-> TRUE] }

\* what a one-byte read may return
Replies == { Empty, ACK, NAK, STX, <<255>> }
Retries(first) == IF first = Empty THEN Replies ELSE { Empty }

\* the command byte a response may echo: the one sent, or another
CmdBytes(cmd) == { IF cmd = None THEN 136 ELSE cmd[1], 255 }
ErrBytes == { 0, 1, BUSY }
\* the data bytes of a response
DataStrings == { <<>>, << 7 >> }

\* XOR of a byte string, as the device computes its LRC
RECURSIVE XorRange(_, _, _)
XorRange(str, lo, hi) ==
    IF lo > hi THEN 0
    ELSE IF lo = hi THEN str[lo]
    ELSE LET mid == (lo + hi) \div 2
         IN  BitXor(XorRange(str, lo, mid), XorRange(str, mid + 1, hi))
Lrc(str) == XorRange(str, 1, Len(str))

\* the bodies the device may announce: command, error, data; or the command
\* byte alone; or nothing
Bodies(cmd) ==
    { << c, e >> \o d : c \in CmdBytes(cmd), e \in ErrBytes, d \in DataStrings }
    \cup { << c >> : c \in CmdBytes(cmd) } \cup { <<>> }

\* what arrives of a body: all of it, or only its first bytes
Arrivals(body) == { SubSeq(body, 1, k) : k \in 0..Len(body) }

\* the LRC byte that arrives: none, the right one, or one with a flipped bit
LrcReads(n, body) ==
    { Empty, << Lrc(<< n >> \o body) >>, << BitXor(Lrc(<< n >> \o body), 1) >> }

(***************************************************************************)
(* Init: a session as BaseKKT.__init__ leaves it.                          *)
(***************************************************************************)
\* the device has sent no response frame
NoSent == [frame |-> <<>>, pos |-> 0, bit |-> 0]

\* the class attributes of BaseKKT the transport reads through self
ClassAttrs ==
    [password |-> password_prapare(30),
     admin_password |-> password_prapare(30)]

\* a session right after __init__, as a record
NewSession ==
    [conn |-> "closed", opened |-> FALSE, password |-> password_prapare(30),
     command |-> None, params |-> None, quick |-> FALSE, request |-> None,
     response |-> NoResponse, args |-> NoArgs, pc |-> "idle",
     previous |-> FALSE, stx_loop |-> 0, attempt |-> 0, loop_i |-> 0,
     depth |-> 0, outcome |-> NoOutcome, wire |-> NoWire, dev |-> NoDev,
     accepted |-> NoFrame, calls |-> 0, method |-> NoMethod,
     result |-> NoResult]

\* no HTTP request is being handled
NoHttp == [a |-> "none", b |-> "none"]

Init ==
    /\ sent = NoSent
    /\ klass = ClassAttrs
    /\ peer = NewSession
    /\ alone = [session |-> NewSession, klass |-> ClassAttrs]
    /\ http = NoHttp
    /\ conn = "closed"
    /\ opened = FALSE
    /\ password \in Passwords
    /\ command = None
    /\ params = None
    /\ quick = FALSE
    /\ request = None
    /\ response = NoResponse
    /\ args = NoArgs
    /\ pc = "idle"
    /\ previous = FALSE
    /\ stx_loop = 0
    /\ attempt = 0
    /\ loop_i = 0
    /\ depth = 0
    /\ outcome = NoOutcome
    /\ wire = NoWire
    /\ dev = NoDev
    /\ accepted = NoFrame
    /\ calls = 0
    /\ method = NoMethod
    /\ result = NoResult

\* a session on which no call was made yet
Fresh == pc = "idle" /\ calls = 0

(***************************************************************************)
(* Actions.                                                                *)
(***************************************************************************)
Ask ==
    /\ pc = "idle"
    /\ calls < MaxCalls
    /\ \E a \in AskArgs,
          portOk \in (IF conn = "open" THEN {TRUE} ELSE BOOLEAN) :
          Commit(ask(Cur, a.command, a.params, a.without_password, a.quick,
                     portOk))

\* one ask on a new session
AskOnce ==
    /\ Fresh
    /\ \E a \in AskArgs, portOk \in BOOLEAN :
          Commit(ask(Cur, a.command, a.params, a.without_password, a.quick,
                     portOk))

Disconnect ==
    /\ pc = "idle"
    /\ calls < MaxCalls
    /\ \E portOk \in (IF conn = "open" THEN {TRUE} ELSE BOOLEAN) :
          Commit(disconnect_call(Cur, portOk))

AnswerENQ ==
    /\ pc = "enq"
    /\ \E first \in Replies : \E second \in Retries(first) :
          Commit(send_ENQ_answer(Cur, first, second))

AnswerRequest ==
    /\ pc = "req"
    /\ \E first \in Replies : \E second \in Retries(first) :
          Commit(send_request_answer(Cur, first, second))

AnswerSTX ==
    /\ pc = "stx"
    /\ \E first \in Replies : \E second \in Retries(first) :
          Commit(wait_STX_answer(Cur, first, second))

DeliverFrame ==
    /\ pc = "resp"
    /\ \/ Commit(read_response_answer(Cur, Empty, <<>>, Empty))
       \/ \E full \in Bodies(command) : \E body \in Arrivals(full) :
          \E lrcRead \in LrcReads(Len(full), body) :
             Commit(read_response_answer(Cur, << Len(full) >>, body, lrcRead))

Next ==
    \/ Ask
    \/ Disconnect
    \/ AnswerENQ
    \/ AnswerRequest
    \/ AnswerSTX
    \/ DeliverFrame

Spec == Init /\ [][Next]_vars

(***************************************************************************)
(* Framing alone: create_request applied to commands and parameter strings *)
(* up to the longest a frame can carry (LEN = 255).                        *)
(***************************************************************************)
\* parameter strings are enumerated up to this length
MaxParams == 3

FrameBytes == { 0, 2, 21, 255 }
FrameCommands == { << 0 >>, << 64 >>, << 255 >> }
\* 254 parameter bytes: with the command byte, LEN = 255
LongParams == [i \in 1..254 |-> IF i % 2 = 0 THEN 255 ELSE 7]
ParamStrings ==
    UNION { [1..n -> FrameBytes] : n \in 0..MaxParams }
        \cup { LongParams, None }

BuildRequest ==
    /\ pc = "idle"
    /\ request = None
    /\ \E cmd \in FrameCommands, prm \in ParamStrings :
          Commit(create_request(Cur, cmd, prm))

NextFrame == BuildRequest

SpecFrame == Init /\ [][NextFrame]_vars

(***************************************************************************)
(* A device that keeps to the protocol: idle at every ENQ (NAK), it        *)
(* acknowledges the request frame, then sends STX and a well-formed        *)
(* response echoing the command, with any error byte and data.  A byte may *)
(* arrive on the retry of the read.                                        *)
(***************************************************************************)
Late(byte) == { << byte, Empty >>, << Empty, byte >> }

IdleENQ ==
    /\ pc = "enq"
    /\ \E r \in Late(NAK) : Commit(send_ENQ_answer(Cur, r[1], r[2]))

AckRequest ==
    /\ pc = "req"
    /\ \E r \in Late(ACK) : Commit(send_request_answer(Cur, r[1], r[2]))

SendSTX ==
    /\ pc = "stx"
    /\ \E r \in Late(STX) : Commit(wait_STX_answer(Cur, r[1], r[2]))

WellFormed(cmd, e, d) ==
    LET body == cmd \o << e >> \o d
    IN  [len |-> << Len(body) >>, body |-> body,
         lrc |-> << Lrc(<< Len(body) >> \o body) >>]

SendResponse ==
    /\ pc = "resp"
    /\ \E e \in ErrBytes, d \in DataStrings :
          LET f == WellFormed(command, e, d)
          IN  Commit(read_response_answer(Cur, f.len, f.body, f.lrc))

NextBusy == Ask \/ IdleENQ \/ AckRequest \/ SendSTX \/ SendResponse

SpecBusy == Init /\ [][NextBusy]_vars

(***************************************************************************)
(* A device idle at every ENQ that never acknowledges a request frame: it  *)
(* answers each frame with a byte other than ACK.                          *)
(***************************************************************************)
RefuseRequest ==
    /\ pc = "req"
    /\ \E b \in { NAK, STX, << 255 >> } : \E r \in Late(b) :
          Commit(send_request_answer(Cur, r[1], r[2]))

NextNoAck == Ask \/ IdleENQ \/ RefuseRequest

SpecNoAck == Init /\ [][NextNoAck]_vars

(***************************************************************************)
(* Int5 alone (utils.py 69-82): pack applied to ints in and around         *)
(* -2**39 .. 2**39 - 1, unpack applied to what pack returned and to byte   *)
(* strings of 0 to 5 bytes.                                                *)
(***************************************************************************)
\* 2**39
Two39 == Big(5497558, 13888)
Int5Ints ==
    { Big(0, k) : k \in -130..130 }
    \cup { Two39, BigSub(Two39, Big(0, 1)), BigSub(Big(0, 0), Two39),
           BigSub(Big(0, -1), Two39), Big(99999, 99999), Big(42949, 67296),
           Big(42949, 67295), Big(-42950, 32704), Big(0, 65535),
           Big(0, 65536), Big(0, -65536), Big(167, 77216), Big(-168, 22784) }
Int5Strings ==
    { << a, b, 0, c, d >> : a \in { 0, 255 }, b \in { 0, 1 }, c \in { 0, 255 },
                            d \in { 0, 127, 128, 255 } }
    \cup { <<>>, << 255 >>, << 1, 2 >>, << 0, 0, 128 >>, << 57, 48, 0, 0 >> }

\* int5.pack(n), then int5.unpack of the bytes
Int5_pack(s, n) ==
    LET s0 == MethodBegin(s, [name |-> "Int5.pack", value |-> n])
    IN  IF ~int5_fits(n) THEN Raise(s0, "OverflowError", 0)
        ELSE [s0 EXCEPT !.outcome.kind = "returned",
                        !.result = [set |-> TRUE, packed |-> int5_pack(n),
                                    back |-> int5_unpack(int5_pack(n))]]

\* int5.unpack(b)
Int5_unpack(s, b) ==
    [MethodBegin(s, [name |-> "Int5.unpack", value |-> b]) EXCEPT
        !.outcome.kind = "returned",
        !.result = [set |-> TRUE, unpacked |-> int5_unpack(b)]]

Int5Pack ==
    /\ Fresh
    /\ \E n \in Int5Ints : Commit(Int5_pack(Cur, n))

Int5Unpack ==
    /\ Fresh
    /\ \E b \in Int5Strings : Commit(Int5_unpack(Cur, b))

NextInt5 == Int5Pack \/ Int5Unpack

SpecInt5 == Init /\ [][NextInt5]_vars

(***************************************************************************)
(* A noisy link: the device keeps to the protocol, and one bit of every    *)
(* response frame is flipped on the way, in LEN, CMD, ERROR or a DATA      *)
(* byte.  The frame is in the input buffer when the host starts to read.   *)
(***************************************************************************)
RECURSIVE Pow2(_)
Pow2(n) == IF n = 0 THEN 1 ELSE 2 * Pow2(n - 1)

FlipBit(byte, bit) == BitXor(byte, Pow2(bit))
FlipAt(stream, pos, bit) == [stream EXCEPT ![pos] = FlipBit(@, bit)]

\* read_response, lines 276-283, on a byte stream that has arrived: read(1),
\* read(length) and read(1) take what is there
Deliver(s, stream) ==
    LET lenRead == Slice(stream, 0, 1)
        length == IF lenRead = Empty THEN 0 ELSE lenRead[1]
    IN  read_response_answer(s, lenRead, Slice(stream, 1, 1 + length),
                             Slice(stream, 1 + length, 2 + length))

\* a frame as the bytes on the link
Stream(f) == f.len \o f.body \o f.lrc

FlipErrors == { 0, 1 }
FlipData == { <<>>, << 7 >>, << 66 >>, << 1, 2 >> }

SendFlipped ==
    /\ pc = "resp"
    /\ \E e \in FlipErrors, d \in FlipData :
          LET stream == Stream(WellFormed(command, e, d))
          IN  \E pos \in 1..(Len(stream) - 1), bit \in 0..7 :
                 /\ Store(Deliver(Cur, FlipAt(stream, pos, bit)))
                 /\ sent' = [frame |-> stream, pos |-> pos, bit |-> bit]
                 /\ UNCHANGED << klass, peer, alone, http >>

NextFlip == AskOnce \/ IdleENQ \/ AckRequest \/ SendSTX \/ SendFlipped

SpecFlip == Init /\ [][NextFlip]_vars

(***************************************************************************)
(* A device that keeps to the protocol on a link that damages the LRC byte *)
(* of the first response frame of an exchange: the frame has its full      *)
(* length and the command sent, and its last byte is not the XOR of the    *)
(* bytes before it.  The frames after the first arrive as sent.            *)
(***************************************************************************)
\* what the LRC byte may become: one bit flipped, or any other value
WrongLrc(lrc) == { FlipBit(lrc, bit) : bit \in 0..7 } \cup { (lrc + 1) % 256 }

SendCorrupt ==
    /\ pc = "resp" /\ dev.frames = 0
    /\ \E e \in ErrBytes, d \in DataStrings :
          LET f == WellFormed(command, e, d)
          IN  \E bad \in WrongLrc(f.lrc[1]) :
                 /\ Store(read_response_answer(Cur, f.len, f.body, << bad >>))
                 /\ sent' = [frame |-> f.len \o f.body \o << bad >>,
                             pos |-> Len(f.body) + 2, bit |-> 0]
                 /\ UNCHANGED << klass, peer, alone, http >>

SendCorrect ==
    /\ pc = "resp" /\ dev.frames >= 1
    /\ \E e \in FlipErrors, d \in DataStrings :
          LET f == WellFormed(command, e, d)
          IN  /\ Store(read_response_answer(Cur, f.len, f.body, f.lrc))
              /\ sent' = [frame |-> f.len \o f.body \o f.lrc, pos |-> 0,
                          bit |-> 0]
              /\ UNCHANGED << klass, peer, alone, http >>

NextBadLrc ==
    AskOnce \/ IdleENQ \/ AckRequest \/ SendSTX \/ SendCorrupt \/ SendCorrect

SpecBadLrc == Init /\ [][NextBadLrc]_vars

(***************************************************************************)
(* A device that may hold a stale response when ask begins (it answers the *)
(* cleanup ENQ with ACK or NAK), and whose frames may arrive cut short:    *)
(* LEN announces more body bytes than the read returns.                    *)
(***************************************************************************)
\* the device answers an ENQ: idle (NAK), or, to the cleanup probe, with a
\* response pending (ACK)
AnswerProbe ==
    /\ pc = "enq"
    /\ \E b \in (IF previous THEN { ACK, NAK } ELSE { NAK }) :
       \E r \in Late(b) : Commit(send_ENQ_answer(Cur, r[1], r[2]))

\* a frame with fewer body bytes than LEN says, and no LRC byte after them
SendShort ==
    /\ pc = "resp"
    /\ \E e \in FlipErrors, d \in DataStrings :
          LET f == WellFormed(IF previous THEN << 136 >> ELSE command, e, d)
          IN  \E k \in 0..(Len(f.body) - 1) :
                 /\ Store(read_response_answer(Cur, f.len,
                                               SubSeq(f.body, 1, k), Empty))
                 /\ sent' = [frame |-> f.len \o SubSeq(f.body, 1, k),
                             pos |-> 0, bit |-> 0]
                 /\ UNCHANGED << klass, peer, alone, http >>

\* a whole frame
SendWhole ==
    /\ pc = "resp"
    /\ \E e \in FlipErrors, d \in DataStrings :
          LET f == WellFormed(IF previous THEN << 136 >> ELSE command, e, d)
          IN  /\ Store(read_response_answer(Cur, f.len, f.body, f.lrc))
              /\ sent' = [frame |-> f.len \o f.body \o f.lrc, pos |-> 0,
                          bit |-> 0]
              /\ UNCHANGED << klass, peer, alone, http >>

NextShort ==
    AskOnce \/ AnswerProbe \/ AckRequest \/ SendSTX \/ SendShort \/ SendWhole

SpecShort == Init /\ [][NextShort]_vars

(***************************************************************************)
(* A device that is idle when ask begins and is silent when the request    *)
(* frame is written: it has taken the frame and works on it.  To the ENQ   *)
(* that follows it answers ACK, then sends STX and its response.           *)
(***************************************************************************)
IdleBefore ==
    /\ pc = "enq" /\ wire.req = 0
    /\ \E r \in Late(NAK) : Commit(send_ENQ_answer(Cur, r[1], r[2]))

SilentRequest ==
    /\ pc = "req"
    /\ Commit(send_request_answer(Cur, Empty, Empty))

PendingENQ ==
    /\ pc = "enq" /\ wire.req >= 1
    /\ \E r \in Late(ACK) : Commit(send_ENQ_answer(Cur, r[1], r[2]))

SendPending ==
    /\ pc = "resp"
    /\ \E e \in ErrBytes, d \in FlipData :
          LET f == WellFormed(command, e, d)
          IN  /\ Store(read_response_answer(Cur, f.len, f.body, f.lrc))
              /\ sent' = [frame |-> f.len \o f.body \o f.lrc, pos |-> 0,
                          bit |-> 0]
              /\ UNCHANGED << klass, peer, alone, http >>

NextSilent ==
    \/ AskOnce
    \/ IdleBefore
    \/ SilentRequest
    \/ PendingENQ
    \/ SendSTX
    \/ SendPending

SpecSilent == Init /\ [][NextSilent]_vars

(***************************************************************************)
(* A line on which every ENQ of the exchange is answered with a byte that  *)
(* is neither ACK nor NAK; the clean-up probe is answered with NAK or with *)
(* such a byte.                                                            *)
(***************************************************************************)
NoiseBytes == { STX, << 0 >>, << 255 >> }

ProbeIdle ==
    /\ pc = "enq" /\ previous
    /\ \E r \in Late(NAK) : Commit(send_ENQ_answer(Cur, r[1], r[2]))

NoisyENQ ==
    /\ pc = "enq"
    /\ \E b \in NoiseBytes : \E r \in Late(b) :
          /\ Store(send_ENQ_answer(Cur, r[1], r[2]))
          /\ sent' = [frame |-> b, pos |-> 0, bit |-> 0]
          /\ UNCHANGED << klass, peer, alone, http >>

NextNoise == Ask \/ ProbeIdle \/ NoisyENQ

SpecNoise == Init /\ [][NextNoise]_vars

(***************************************************************************)
(* Two sessions, each on a serial port of its own with an idle device on   *)
(* it.  The first session is the session variables, the second is peer;    *)
(* klass is the class BaseKKT, which both sessions share.  alone is the    *)
(* first session in a process with no second session: it gets the calls    *)
(* and the bytes the first session gets, and has a class of its own.       *)
(***************************************************************************)
\* a constructor that stores the password on the class
init_on_class(s, k, pw) ==
    [session |-> [clear_vars(s) EXCEPT !.password = None],
     klass |-> IF pw = None THEN k
               ELSE [k EXCEPT !.password = password_prapare(pw[1])]]

\* BaseKKT.__init__(password=pw), or with no keyword when pw is None: the
\* password is set on the object; None stands for no attribute on the object
init(s, k, pw) ==
    [session |-> [clear_vars(s) EXCEPT
                     !.password = IF pw = None THEN None
                                  ELSE password_prapare(pw[1])],
     klass |-> k]

\* self.password: the attribute of the object, else that of the class
Lookup(s, k) ==
    [s EXCEPT !.password = IF @ = None THEN k.password ELSE @]

\* the password keyword of the constructor: absent, or the number 1
InitPasswords == { None, << 1 >> }
PairArgs == { a \in AskArgs : a.command \in { 136, 252 } }
PairData == { << >>, << 7 >> }

\* what a session can get next: a call of ask, or bytes from its device
Inputs(s) ==
    IF s.pc = "idle"
    THEN IF s.calls = 0
         THEN { [kind |-> "ask", a |-> a, portOk |-> ok, e |-> 0, d |-> << >>] :
                  a \in PairArgs, ok \in BOOLEAN }
         ELSE { }
    ELSE IF s.pc = "resp"
    THEN { [kind |-> "resp", a |-> CHOOSE a \in PairArgs : TRUE,
            portOk |-> TRUE, e |-> e, d |-> d] :
             e \in FlipErrors, d \in PairData }
    ELSE { [kind |-> s.pc, a |-> CHOOSE a \in PairArgs : TRUE,
            portOk |-> TRUE, e |-> 0, d |-> << >>] }

\* the session after it got input i
Apply(s, i) ==
    CASE i.kind = "ask" ->
            ask(s, i.a.command, i.a.params, i.a.without_password, i.a.quick,
                i.portOk)
      [] i.kind = "enq" -> send_ENQ_answer(s, NAK, Empty)
      [] i.kind = "req" -> send_request_answer(s, ACK, Empty)
      [] i.kind = "stx" -> wait_STX_answer(s, STX, Empty)
      [] i.kind = "resp" ->
            LET f == WellFormed(s.command, i.e, i.d)
            IN  read_response_answer(s, f.len, f.body, f.lrc)

\* a step of a session of class k: attributes are looked up, none is set
Step(s, k, i) == [Apply(Lookup(s, k), i) EXCEPT !.password = s.password]

\* KKT(port=..., password=pw) for the first session
FirstInit ==
    /\ Fresh /\ outcome.kind = "none"
    /\ \E pw \in InitPasswords :
          /\ Store(init(Cur, klass, pw).session)
          /\ klass' = init(Cur, klass, pw).klass
          /\ alone' = init(alone.session, alone.klass, pw)
          /\ UNCHANGED << sent, peer, http >>

\* KKT(port=..., password=pw) for the second session
SecondInit ==
    /\ peer.pc = "idle" /\ peer.calls = 0 /\ peer.outcome.kind = "none"
    /\ \E pw \in InitPasswords :
          /\ peer' = init(peer, klass, pw).session
          /\ klass' = init(peer, klass, pw).klass
          /\ UNCHANGED << session, sent, alone, http >>

FirstStep ==
    \E i \in Inputs(Cur) :
       /\ Store(Step(Cur, klass, i))
       /\ alone' = [alone EXCEPT !.session = Step(@, alone.klass, i)]
       /\ UNCHANGED << sent, klass, peer, http >>

SecondStep ==
    \E i \in Inputs(peer) :
       /\ peer' = Step(peer, klass, i)
       /\ UNCHANGED << session, sent, klass, alone, http >>

NextPair == FirstInit \/ SecondInit \/ FirstStep \/ SecondStep

SpecPair == Init /\ [][NextPair]_vars

(***************************************************************************)
(* The HTTP facade (fiscal_network.py) with two requests for the same      *)
(* com_port in the hands of two worker threads.  Request a is handled on   *)
(* the session variables, request b on peer; http holds for each request   *)
(* the route being handled, or the status it was answered with.  A byte    *)
(* the device sends is read by the handler that reads next.                *)
(***************************************************************************)
Routes == { "sell_tickets", "daily_report_x", "daily_report_z" }

\* the route handlers up to the first read of their exchange:
\* fr = KKT(port=com_port, bod=115200), then the command method
\* (sell_tickets with no discounts and a total of 0)
Handler(k, route, portOk) ==
    LET fr == Lookup(init(NewSession, k, None).session, k)
    IN  CASE route = "daily_report_x" -> x40(fr, k.admin_password, portOk)
          [] route = "daily_report_z" -> x41(fr, k.admin_password, portOk)
          [] route = "sell_tickets" ->
                x85(fr, Dec(0, 0),
                    << Dec(0, 0), Dec(0, 0), Dec(0, 0), Dec(0, 0) >>,
                    Dec(0, 0), [type |-> "list", items |-> << 1, 0, 0, 0 >>],
                    << >>, portOk)

\* the status of the HTTP response: "except (ConnectionError, KktError)"
\* answers 500, any other exception leaves the handler
Status(s) ==
    IF s.outcome.kind = "returned" THEN "200"
    ELSE IF s.outcome.exc \in { "ConnectionError", "KktError" } THEN "500"
    ELSE "unhandled"

RequestA ==
    /\ http.a = "none"
    /\ \E route \in Routes, portOk \in BOOLEAN :
          /\ Store(Handler(klass, route, portOk))
          /\ http' = [http EXCEPT !.a = route]
    /\ UNCHANGED << sent, klass, peer, alone >>

RequestB ==
    /\ http.b = "none"
    /\ \E route \in Routes, portOk \in BOOLEAN :
          /\ peer' = Handler(klass, route, portOk)
          /\ http' = [http EXCEPT !.b = route]
    /\ UNCHANGED << session, sent, klass, alone >>

ExchangeA ==
    /\ http.a \in Routes /\ pc # "idle"
    /\ \E i \in Inputs(Cur) : Commit(Apply(Cur, i))

ExchangeB ==
    /\ http.b \in Routes /\ peer.pc # "idle"
    /\ \E i \in Inputs(peer) : peer' = Apply(peer, i)
    /\ UNCHANGED << session, sent, klass, alone, http >>

RespondA ==
    /\ http.a \in Routes /\ pc = "idle"
    /\ http' = [http EXCEPT !.a = Status(Cur)]
    /\ UNCHANGED << session, sent, klass, peer, alone >>

RespondB ==
    /\ http.b \in Routes /\ peer.pc = "idle"
    /\ http' = [http EXCEPT !.b = Status(peer)]
    /\ UNCHANGED << session, sent, klass, peer, alone >>

NextHttp ==
    \/ RequestA
    \/ RequestB
    \/ ExchangeA
    \/ ExchangeB
    \/ RespondA
    \/ RespondB

SpecHttp == Init /\ [][NextHttp]_vars

(***************************************************************************)
(* A device that acknowledges the request frame and then sends a byte      *)
(* other than STX where the host waits for STX.  The ENQ the host writes   *)
(* then it answers with ACK, NAK or another byte.  sent.pos counts the     *)
(* ENQ the host wrote because it read such a byte.                         *)
(***************************************************************************)
NotSTX == { ACK, NAK, << 255 >> }

SendNotSTX ==
    /\ pc = "stx" /\ ~previous
    /\ \E b \in NotSTX : \E r \in Late(b) :
          LET s1 == wait_STX_answer(Cur, r[1], r[2])
          IN  /\ Store(s1)
              /\ sent' = [frame |-> b,
                          pos |-> IF s1.pc = "enq" THEN sent.pos + 1
                                  ELSE sent.pos,
                          bit |-> 0]
    /\ UNCHANGED << klass, peer, alone, http >>

AnswerReprobe ==
    /\ pc = "enq" /\ wire.req >= 1
    /\ \E b \in NotSTX : Commit(send_ENQ_answer(Cur, b, Empty))

NextStall == AskOnce \/ IdleBefore \/ AckRequest \/ SendNotSTX \/ AnswerReprobe

SpecStall == Init /\ [][NextStall]_vars

(***************************************************************************)
(* An ask, with quick=True or not, followed on the same session by an ask  *)
(* with quick=False, the device idle and answering each request.           *)
(***************************************************************************)
PlainAsk ==
    /\ pc = "idle" /\ calls = 1
    /\ \E a \in { x \in AskArgs : ~x.quick },
          portOk \in (IF conn = "open" THEN { TRUE } ELSE BOOLEAN) :
          Commit(ask(Cur, a.command, a.params, a.without_password, a.quick,
                     portOk))

NextRequick ==
    AskOnce \/ PlainAsk \/ IdleENQ \/ AckRequest \/ SendSTX \/ SendResponse

SpecRequick == Init /\ [][NextRequick]_vars

(***************************************************************************)
(* A device that sends, where the host reads a frame, any of the frames of *)
(* Bodies: whole or cut short, of the command sent or of another, with the *)
(* right LRC, a wrong one or none.  sent is the bytes the host read: LEN,  *)
(* the body bytes and the LRC byte, sent.pos the number of body bytes.     *)
(***************************************************************************)
DeliverAny ==
    /\ pc = "resp"
    /\ \E full \in Bodies(command) : \E body \in Arrivals(full) :
       \E lrcRead \in LrcReads(Len(full), body) :
          /\ Store(read_response_answer(Cur, << Len(full) >>, body, lrcRead))
          /\ sent' = [frame |-> << Len(full) >> \o body \o lrcRead,
                      pos |-> Len(body), bit |-> 0]
    /\ UNCHANGED << klass, peer, alone, http >>

NextAnyFrame ==
    AskOnce \/ AnswerProbe \/ AckRequest \/ SendSTX \/ DeliverAny

SpecAnyFrame == Init /\ [][NextAnyFrame]_vars

(***************************************************************************)
(* A device that answers the request with the frame of another command:    *)
(* full length, the first body byte not the command byte sent, the LRC     *)
(* right or wrong.                                                         *)
(***************************************************************************)
OtherCommands(cmd) == { 0, 255, FlipBit(cmd[1], 0), FlipBit(cmd[1], 7) }

SendOtherCommand ==
    /\ pc = "resp"
    /\ \E c \in OtherCommands(command), e \in ErrBytes, d \in DataStrings :
          LET f == WellFormed(<< c >>, e, d)
          IN  \E lrc \in { f.lrc[1], FlipBit(f.lrc[1], 3) } :
                 /\ Store(read_response_answer(Cur, f.len, f.body, << lrc >>))
                 /\ sent' = [frame |-> f.len \o f.body \o << lrc >>,
                             pos |-> 0, bit |-> 0]
                 /\ UNCHANGED << klass, peer, alone, http >>

NextOther == AskOnce \/ IdleENQ \/ AckRequest \/ SendSTX \/ SendOtherCommand

SpecOther == Init /\ [][NextOther]_vars

(***************************************************************************)
(* The command methods, each called on a new session, with arguments at    *)
(* and around the limits of their checks, against the device that keeps to *)
(* the protocol.                                                           *)
(***************************************************************************)
Repeat(c, n) == [i \in 1..n |-> c]

\* count: 1.5, 9999999.999, 10000000, -0.001
Counts == { Dec(1, 5000), Dec(9999999, 9990), Dec(10000000, 0),
            Dec(-1, 9990) }
\* price, summa: 0.125, 99999999.99, 100000000, -0.01
Amounts == { Dec(0, 1250), Dec(99999999, 9900), Dec(100000000, 0),
             Dec(-1, 9900) }
Departments == { -1, 0, 16, 17 }
\* taxes: lists and a tuple of tax groups, a list of three, a str, None
TaxArgs ==
    { [type |-> "list", items |-> << 0, 0, 0, 0 >>],
      [type |-> "list", items |-> << 1, 2, 3, 4 >>],
      [type |-> "tuple", items |-> << 4, 0, 0, 0 >>],
      [type |-> "list", items |-> << 0, 0, 0, 5 >>],
      [type |-> "list", items |-> << 0, 0, 0 >>],
      [type |-> "str", items |-> << 48, 48, 48, 48 >>],
      [type |-> "NoneType", items |-> << >>] }
\* text: '', 40 and 41 letters, Cyrillic letters, a character outside the
\* code page
Texts == { << >>, Repeat(65, 40), Repeat(65, 41), << 1071, 1103 >>,
           << 20013 >> }
Cashes == { Dec(0, 0), Dec(10, 0) }
SummsArgs ==
    { << Dec(0, 0), Dec(0, 0), Dec(0, 0), Dec(0, 0) >>,
      << Dec(99999999, 9900), Dec(0, 0), Dec(0, 1250), Dec(0, 0) >>,
      << Dec(0, 0), Dec(100000000, 0), Dec(0, 0), Dec(0, 0) >>,
      << Dec(0, 0), Dec(0, 0), Dec(-1, 9900), Dec(0, 0) >>,
      << Dec(0, 0), Dec(0, 0), Dec(0, 0), Dec(99999999, 9900) >> }
\* discount: 0, 99.99, -99.99, 100, -100
Discounts == { Dec(0, 0), Dec(99, 9900), Dec(-100, 100), Dec(100, 0),
               Dec(-100, 0) }
DocumentTypes == { -1, 0, 1, 2, 3, 4 }
PaymentsArgs ==
    { Repeat(Dec(0, 0), 16), [Repeat(Dec(0, 0), 16) EXCEPT ![1] = Dec(10, 0)],
      Repeat(Dec(0, 0), 15) }
DiscountPercents == { 0, 500 }

\* the error byte and the data of the device's response
ReplyErrors == { 0, 1 }
ReplyData ==
    { << >>, << 7 >>, << 5, 0, 0, 0, 0, 0 >>, << 5, 57, 48, 0, 0, 0 >>,
      << 5, 255, 255, 255, 255, 255 >>, << 1, 2, 3, 4, 5, 0, 65, 223 >> }

CallX8count ==
    /\ Fresh
    /\ \E count \in Counts, price \in Amounts, text \in Texts,
          department \in Departments, taxes \in TaxArgs, portOk \in BOOLEAN :
          \/ Commit(x80(Cur, count, price, text, department, taxes, portOk))
          \/ Commit(x81(Cur, count, price, text, department, taxes, portOk))
          \/ Commit(x82(Cur, count, price, text, department, taxes, portOk))
          \/ Commit(x83(Cur, count, price, text, department, taxes, portOk))
          \/ Commit(x84(Cur, count, price, text, department, taxes, portOk))

CallX85 ==
    /\ Fresh
    /\ \E cash \in Cashes, summs \in SummsArgs, discount \in Discounts,
          taxes \in TaxArgs, text \in Texts, portOk \in BOOLEAN :
          Commit(x85(Cur, cash, summs, discount, taxes, text, portOk))

CallX8summa ==
    /\ Fresh
    /\ \E summa \in Amounts, text \in Texts, taxes \in TaxArgs,
          portOk \in BOOLEAN :
          \/ Commit(x86(Cur, summa, text, taxes, portOk))
          \/ Commit(x87(Cur, summa, text, taxes, portOk))
          \/ Commit(x8A(Cur, summa, text, taxes, portOk))
          \/ Commit(x8B(Cur, summa, text, taxes, portOk))

CallPlain ==
    /\ Fresh
    /\ \E portOk \in BOOLEAN :
          \/ Commit(x40(Cur, AdminPassword, portOk))
          \/ Commit(x41(Cur, AdminPassword, portOk))
          \/ Commit(x88(Cur, portOk))
          \/ Commit(x89(Cur, portOk))
          \/ Commit(xFC(Cur, portOk))

CallX8D ==
    /\ Fresh
    /\ \E document_type \in DocumentTypes, portOk \in BOOLEAN :
          Commit(x8D(Cur, document_type, portOk))

CallX8E ==
    /\ Fresh
    /\ \E payments \in PaymentsArgs, taxes \in TaxArgs, text \in Texts,
          discount_percent \in DiscountPercents, portOk \in BOOLEAN :
          Commit(x8E(Cur, payments, taxes, text, discount_percent, portOk))

SendReply ==
    /\ pc = "resp"
    /\ \E e \in ReplyErrors, d \in ReplyData :
          LET f == WellFormed(command, e, d)
          IN  Commit(read_response_answer(Cur, f.len, f.body, f.lrc))

NextCmd ==
    \/ CallX8count
    \/ CallX85
    \/ CallX8summa
    \/ CallPlain
    \/ CallX8D
    \/ CallX8E
    \/ IdleENQ
    \/ AckRequest
    \/ SendSTX
    \/ SendReply

SpecCmd == Init /\ [][NextCmd]_vars

(***************************************************************************)
(* Properties.                                                             *)
(***************************************************************************)
AskEnded == outcome.op = "ask" /\ pc = "idle"
AskReturned == AskEnded /\ outcome.kind = "returned"
AskRaised(exc) == AskEnded /\ outcome.kind = "raised" /\ outcome.exc = exc

\* C1: every frame create_request builds starts with STX, carries
\* LEN = len(command) + len(params) = len(frame) - 3 in its second byte, the
\* command and the parameters after it, and ends with the XOR of all bytes
\* from LEN to the last parameter byte.
C1_FrameLayout ==
    request # None =>
        LET F == request
            n == Len(F)
            plen == IF params = None THEN 0 ELSE Len(params)
        IN  /\ F[1] = 2
            /\ F[2] = Len(command) + plen
            /\ F[2] = n - 3
            /\ SubSeq(F, 3, n - 1) =
                   (IF params = None THEN command ELSE command \o params)
            /\ F[n] = Lrc(SubSeq(F, 2, n - 1))

\* a frame of the greatest length: LEN = 255
C1_Witness == request # None /\ Len(request) = 258 /\ request[2] = 255


\* C2: the record ask returns carries the command byte of the request it
\* sent; a frame whose first body byte differs is never accepted or returned.
C2_EchoedCommand ==
    /\ accepted.set => accepted.body[1] = request[3]
    /\ AskReturned =>
          /\ accepted.set
          /\ outcome.command = << request[3] >>
          /\ outcome.command = << accepted.body[1] >>

C2_Witness == AskReturned /\ outcome.command = << 252 >>

\* the exchange of a device that keeps to the protocol, run from state s:
\* idle at both probes, ACK to the frame, STX, a well-formed response
CleanExchange(s, a, portOk, e, d) ==
    LET s1 == ask(s, a.command, a.params, a.without_password, a.quick, portOk)
        s2 == send_ENQ_answer(s1, NAK, Empty)
        s3 == send_ENQ_answer(s2, NAK, Empty)
        s4 == send_request_answer(s3, ACK, Empty)
        s5 == wait_STX_answer(s4, STX, Empty)
        f == WellFormed(s5.command, e, d)
    IN  read_response_answer(s5, f.len, f.body, f.lrc)

C4_DeadLink ==
    /\ (pc = "enq" /\ previous /\ wire.enq = 1) =>
          LET r == send_ENQ_answer(Cur, Empty, Empty)
          IN  /\ r.pc = "idle"
              /\ r.outcome.kind = "raised"
              /\ r.outcome.exc = "ConnectionError"
              /\ r.wire = [enq |-> 1, req |-> 0, ack |-> 0, nak |-> 0]
    /\ (AskRaised("ConnectionError") /\ wire.enq = 1) =>
          wire = [enq |-> 1, req |-> 0, ack |-> 0, nak |-> 0]

C4_Witness ==
    AskRaised("ConnectionError") /\ opened
        /\ wire = [enq |-> 1, req |-> 0, ack |-> 0, nak |-> 0]

\* C5: after MAX_ATTEMPT verified responses with error 0x50 ask fails with a
\* connection error; ask never returns a record with a non-zero error byte.
C5_BusyBounded ==
    /\ AskReturned => outcome.error = 0
    /\ (AskEnded /\ accepted.set /\ accepted.body[2] = BUSY
           /\ dev.verified = MAX_ATTEMPT)
          => AskRaised("ConnectionError")

\* C6: with a device idle at every ENQ that acknowledges every request
\* frame, a first response with error 0x50 does not end ask, and when the
\* second response carries error 0 ask returns the data of the second
\* response, having written the request frame exactly twice.
C6_BusyRetry ==
    /\ (outcome.op = "ask" /\ dev.verified = 1 /\ accepted.body[2] = BUSY
           /\ MAX_ATTEMPT > 1)
          => (pc # "idle" /\ outcome.kind = "none")
    /\ (outcome.op = "ask" /\ dev.verified = 2 /\ accepted.body[2] = 0)
          => /\ AskReturned
             /\ outcome.error = 0
             /\ outcome.data = SubSeq(accepted.body, 3, Len(accepted.body))
             /\ wire.req = 2
             /\ wire.nak = 0

C6_Witness ==
    AskReturned /\ dev.verified = 2 /\ outcome.data = << 7 >>
        /\ outcome.error = 0 /\ wire.req = 2

\* C7: with a device idle at every ENQ that never acknowledges a request
\* frame, ask writes the frame at most MAX_ATTEMPT times and then fails
\* with a connection error.
C7_ResendBounded ==
    /\ wire.req <= MAX_ATTEMPT
    /\ (AskEnded /\ outcome.kind = "raised") => outcome.exc = "ConnectionError"

\* C8: an ask that does not return raises a connection error or a device
\* error, whatever the device sends, and nothing else.
C8_TwoErrorKinds ==
    (AskEnded /\ outcome.kind = "raised")
        => outcome.exc \in { "ConnectionError", "KktError" }

\* C9: a new session has no open port; the first ask opens it; a returned
\* non-quick ask leaves no open handle; a returned quick ask leaves the
\* handle open and the next ask uses it without opening another.
C9_LazyHandle ==
    /\ calls = 0 => (conn = "closed" /\ ~opened)
    /\ (calls = 1 /\ outcome.op = "ask" /\ wire.enq >= 1) => opened
    /\ (AskReturned /\ ~quick) => conn = "closed"
    /\ (AskReturned /\ quick) =>
          /\ conn = "open"
          /\ \A a \in AskArgs, portOk \in BOOLEAN :
                LET r == ask(Cur, a.command, a.params, a.without_password,
                             a.quick, portOk)
                IN  ~r.opened /\ r.conn = "open" /\ r.pc = "enq"

C9_Witness ==
    calls = 2 /\ AskReturned /\ ~opened /\ ~quick /\ conn = "closed"

\* C10: a non-quick ask that ends with a device error leaves the handle
\* closed, as a successful one does.
C10_ClosedOnError == (AskRaised("KktError") /\ ~quick) => conn = "closed"

\* C11: whenever ask fails with a connection error the session holds no open
\* serial handle afterwards, for quick and non-quick exchanges alike.
C11_HandleInvalidated == AskRaised("ConnectionError") => conn = "closed"

\* the rules of the argument checks, on the scaled values: an amount in
\* [0, 9999999999], a discount in [-9999, 9999], four tax groups in 0..4, a
\* text of at most 40 characters
Scaled(d, digits) ==
    IF digits = 3
    THEN Big(d.int \div 100, (d.int % 100) * 1000 + RoundHalfEven(d.frac, 10))
    ELSE Big(d.int \div 1000, (d.int % 1000) * 100 + RoundHalfEven(d.frac, 100))
InAmount(v) == v.hi \in 0..99999
InDiscount(v) == (v.hi = 0 /\ v.lo <= 9999) \/ (v.hi = -1 /\ v.lo >= 90001)
TaxesOk(taxes) ==
    /\ taxes.type \in { "list", "tuple" }
    /\ Len(taxes.items) = 4
    /\ \A i \in 1..Len(taxes.items) : taxes.items[i] \in 0..4
TextOk(text) == Len(text) <= 40
FirstSum(m) == IF m.summs[1] = Dec(0, 0) THEN m.cash ELSE m.summs[1]
ArgsOk(m) ==
    IF m.name = "x8count"
    THEN /\ InAmount(Scaled(m.count, 3)) /\ InAmount(Scaled(m.price, 2))
         /\ m.department \in 0..16 /\ TaxesOk(m.taxes) /\ TextOk(m.text)
    ELSE IF m.name = "x85"
    THEN /\ InAmount(Scaled(FirstSum(m), 2))
         /\ \A i \in 2..4 : InAmount(Scaled(m.summs[i], 2))
         /\ InDiscount(Scaled(m.discount, 2))
         /\ TaxesOk(m.taxes) /\ TextOk(m.text)
    ELSE IF m.name = "x8summa"
    THEN InAmount(Scaled(m.summa, 2)) /\ TaxesOk(m.taxes) /\ TextOk(m.text)
    ELSE IF m.name = "x8D" THEN m.document_type \in 0..3
    ELSE TRUE

\* the call has touched the serial port: opened it, written or read
SerialIO ==
    opened \/ conn = "open" \/ wire # NoWire \/ dev # NoDev \/ pc # "idle"
\* the method has called ask
Handed == SerialIO \/ outcome.exc = "ConnectionError"

\* C12: a call of x80-x84, x85, x86, x87, x8A, x8B or x8D with an argument
\* that breaks a validation rule fails with KktError before any serial I/O:
\* the port is not opened, nothing is written and nothing is read.
C12_ValidationLocal ==
    (method.name \in { "x8count", "x85", "x8summa", "x8D" } /\ ~ArgsOk(method))
        => /\ outcome.kind = "raised"
           /\ outcome.exc = "KktError"
           /\ ~SerialIO

\* C13 as stated: x80-x84 and x85 hand a request to the transport if and
\* only if the scaled amounts, the discount, the department, the taxes and
\* the length of the text keep to the rules.
C13_AcceptsIffRules ==
    method.name \in { "x8count", "x85" } => (Handed <=> ArgsOk(method))

\* C13: x80-x84 and x85 hand a request to the transport if and only if the
\* arguments keep to the rules (scaled count, price and sums in
\* [0, 9999999999], scaled discount in [-9999, 9999], department in [0, 16],
\* exactly 4 taxes each in 0..4, at most 40 characters of text) and every
\* character of the text has a byte in the code page.
C13_AcceptsIffEncodable ==
    method.name \in { "x8count", "x85" }
        => (Handed <=> (ArgsOk(method) /\ Encodable(method.text)))

\* the limits themselves are accepted: 9999999999, department 16, tax group
\* 4 and 40 characters
C13_Witness ==
    /\ method.name = "x8count"
    /\ Scaled(method.count, 3) = Big(99999, 99999)
    /\ Scaled(method.price, 2) = Big(99999, 99999)
    /\ method.department = 16
    /\ Len(method.taxes.items) = 4
    /\ method.taxes.items[4] = 4
    /\ Len(method.text) = 40
    /\ wire.req = 1

\* the 40 bytes of a text field: the bytes of the text in the code page,
\* then 0x00
TextField(text) ==
    [i \in 1..40 |-> IF i <= Len(text) THEN encode(text)[i] ELSE 0]

\* C14: x80 hands every valid call whose text the code page encodes to the
\* transport, and the request x80 sends is STX, LEN = 60, then 0x80, the 4-byte operator
\* password, the count scaled by 1000 in 5 little-endian bytes, the price
\* scaled by 100 in 5 little-endian bytes, the department byte, the 4 tax
\* bytes and the text padded with 0x00 to 40 bytes, then the LRC; when a
\* verified response with error 0 arrives x80 returns its first data byte as
\* the operator number.
C14_X80Request ==
    (method.name = "x8count" /\ method.command = 128) =>
        /\ request # None =>
              /\ Len(request) = 63
              /\ request[1] = 2
              /\ request[2] = 60
              /\ request[3] = 128
              /\ SubSeq(request, 4, 7) = password
              /\ FromBytes(SubSeq(request, 8, 12)) = Scaled(method.count, 3)
              /\ FromBytes(SubSeq(request, 13, 17)) = Scaled(method.price, 2)
              /\ request[18] = method.department
              /\ SubSeq(request, 19, 22) = method.taxes.items
              /\ SubSeq(request, 23, 62) = TextField(method.text)
              /\ request[63] = Lrc(SubSeq(request, 2, 62))
        /\ (ArgsOk(method) /\ Encodable(method.text)) => Handed
        /\ wire.req >= 1 => request # None
        /\ (accepted.set /\ accepted.body[2] = 0 /\ Len(accepted.body) >= 3)
              => /\ pc = "idle"
                 /\ outcome.kind = "returned"
                 /\ result.set
                 /\ result.operator = accepted.body[3]

\* x80 with a Cyrillic text has returned operator 7
C14_Witness ==
    /\ method.name = "x8count" /\ method.command = 128
    /\ method.text = << 1071, 1103 >>
    /\ request # None /\ Len(request) = 63 /\ request[23] = 223
    /\ result.set /\ result.operator = 7

\* the short two bytes are, low byte first
Short(b) ==
    LET u == b[1] + 256 * b[2]
    IN  IF u >= 32768 THEN u - 65536 ELSE u

\* C15: for valid arguments whose text the code page encodes x85 calls the
\* transport once, in non-quick mode, and the one request it sends is STX,
\* LEN = 71, 0x85, the 4-byte operator password, the four sums scaled by 100
\* in 5 little-endian bytes each (the first sum is summs[0], or cash when
\* summs[0] is zero), the discount scaled by 100 in 2 bytes, the 4 tax bytes
\* and the 40 text bytes, then the LRC; on a verified response with error 0
\* x85 returns the first data byte as the operator and, as the change, the
\* signed little-endian integer of data bytes 1..5 with two decimal digits,
\* and the handle is closed.
C15_X85Exchange ==
    method.name = "x85" =>
        /\ (ArgsOk(method) /\ Encodable(method.text)) => Handed
        /\ wire.req <= 1
        /\ pc # "idle" => ~quick
        /\ wire.req = 1 => request # None
        /\ request # None =>
              /\ Len(request) = 74
              /\ request[1] = 2
              /\ request[2] = 71
              /\ request[3] = 133
              /\ SubSeq(request, 4, 7) = password
              /\ FromBytes(SubSeq(request, 8, 12)) = Scaled(FirstSum(method), 2)
              /\ \A i \in 2..4 :
                    FromBytes(SubSeq(request, 3 + 5 * i, 7 + 5 * i))
                        = Scaled(method.summs[i], 2)
              /\ Big(0, Short(SubSeq(request, 28, 29)))
                    = Scaled(method.discount, 2)
              /\ SubSeq(request, 30, 33) = method.taxes.items
              /\ SubSeq(request, 34, 73) = TextField(method.text)
              /\ request[74] = Lrc(SubSeq(request, 2, 73))
        /\ (accepted.set /\ accepted.body[2] = 0 /\ Len(accepted.body) >= 3)
              => /\ pc = "idle"
                 /\ outcome.kind = "returned"
                 /\ conn = "closed"
                 /\ result.set
                 /\ result.operator = accepted.body[3]
                 /\ result.odd.digits = 2
                 /\ int5_fits(result.odd.scaled)
                 /\ Len(accepted.body) >= 8 =>
                       int5_pack(result.odd.scaled) = SubSeq(accepted.body, 4, 8)

\* x85 has returned operator 5 and a negative change, -0.01
C15_Witness ==
    /\ method.name = "x85"
    /\ wire.req = 1
    /\ result.set /\ result.operator = 5
    /\ result.odd = [scaled |-> Big(-1, 99999), digits |-> 2]

\* C16: for a summa whose scaled value is in [0, 9_999_999_999], a text of at
\* most 40 characters and a valid tax vector, each of x86, x87, x8A and x8B
\* hands a request to the transport, the request frame has LEN = 54 (command,
\* operator password, 5-byte sum, 4 tax bytes, text padded with 0x00 to 40
\* bytes), and on a verified response with error 0 the operator number of the
\* response is returned.
C16_X8summaRequest ==
    (method.name = "x8summa" /\ ArgsOk(method) /\ Encodable(method.text)) =>
        /\ Handed
        /\ request # None =>
              /\ Len(request) = 57
              /\ request[2] = 54
              /\ request[3] = method.command
              /\ SubSeq(request, 4, 7) = password
              /\ FromBytes(SubSeq(request, 8, 12)) = Scaled(method.summa, 2)
              /\ SubSeq(request, 13, 16) = method.taxes.items
              /\ SubSeq(request, 17, 56) = TextField(method.text)
        /\ (accepted.set /\ accepted.body[2] = 0 /\ Len(accepted.body) >= 3)
              => result.set /\ result.operator = accepted.body[3]

\* C17: x8D rejects every document type outside 0..3 with KktError before
\* any I/O; for each of 0, 1, 2 and 3 it hands a request to the transport,
\* the request frame has LEN = 6 (command 0x8D, operator password, the
\* document-type byte), and on a verified response with error 0 the operator
\* number of the response is returned.
C17_X8DRequest ==
    method.name = "x8D" =>
        /\ ~ArgsOk(method) =>
              outcome.kind = "raised" /\ outcome.exc = "KktError" /\ ~SerialIO
        /\ ArgsOk(method) =>
              /\ Handed
              /\ request # None =>
                    /\ Len(request) = 9
                    /\ request[2] = 6
                    /\ request[3] = 141
                    /\ SubSeq(request, 4, 7) = password
                    /\ request[8] = method.document_type
              /\ (accepted.set /\ accepted.body[2] = 0
                      /\ Len(accepted.body) >= 3)
                    => result.set /\ result.operator = accepted.body[3]

\* the arguments the claim about x8E takes: 16 payments, 4 taxes each in
\* 0..4, a text of at most 40 characters
X8EArgsOk(m) ==
    /\ Len(m.payments) = 16
    /\ \A i \in 1..Len(m.payments) : InAmount(Scaled(m.payments[i], 2))
    /\ TaxesOk(m.taxes)
    /\ TextOk(m.text)

\* C18: for 16 payments, a discount percentage, 4 taxes each in 0..4 and a
\* text of at most 40 characters x8E hands one non-quick request to the
\* transport, the request frame has LEN = 131 (command 0x8E, operator
\* password, 16 five-byte sums, the 2-byte discount, 4 tax bytes each equal to
\* the tax integer, 40 text bytes), and on a verified response with error 0
\* the change decoded from the response is returned.
C18_X8ERequest ==
    (method.name = "x8E" /\ X8EArgsOk(method) /\ Encodable(method.text)) =>
        /\ Handed
        /\ pc # "idle" => ~quick
        /\ request # None =>
              /\ Len(request) = 134
              /\ request[2] = 131
              /\ request[3] = 142
              /\ SubSeq(request, 4, 7) = password
              /\ \A i \in 1..16 :
                    FromBytes(SubSeq(request, 3 + 5 * i, 7 + 5 * i))
                        = Scaled(method.payments[i], 2)
              /\ SubSeq(request, 90, 93) = method.taxes.items
              /\ SubSeq(request, 94, 133) = TextField(method.text)
        /\ (accepted.set /\ accepted.body[2] = 0 /\ Len(accepted.body) >= 3)
              => result.set

\* the commands that occur inside a receipt, and the terminating and
\* reporting commands
QuickCommands == (128..132) \cup (134..139)
NonQuickCommands == { 64, 65, 133, 142, 252 }

\* C19: a command method with code in 0x80-0x84 or 0x86-0x8B runs its
\* exchange in quick mode and the handle is open after it has returned; x40,
\* x41, x85, x8E and xFC run theirs in non-quick mode and the handle is closed
\* after they have returned.
C19_QuickModes ==
    method.name # "" =>
        /\ method.command \in QuickCommands =>
              /\ pc # "idle" => quick
              /\ (pc = "idle" /\ outcome.kind = "returned") => conn = "open"
        /\ method.command \in NonQuickCommands =>
              /\ pc # "idle" => ~quick
              /\ (pc = "idle" /\ outcome.kind = "returned") => conn = "closed"

C23_FlipRejected ==
    /\ wire.ack = 0
    /\ ~accepted.set
    /\ ~AskReturned

\* C23: a frame with one bit flipped in CMD, ERROR or a DATA byte is never
\* acknowledged and no record is decoded from it; a frame with one bit flipped
\* in LEN is acknowledged only when the flip makes LEN smaller and the byte
\* that follows the shortened body equals the XOR of the new LEN and the
\* shortened body.
C23_FlipRejectedUnlessShorter ==
    /\ (sent.pos > 1 /\ outcome.op = "ask") =>
          (wire.ack = 0 /\ ~accepted.set /\ ~AskReturned)
    /\ AskReturned => accepted.set
    /\ accepted.set => wire.ack >= 1
    /\ wire.ack >= 1 =>
          /\ sent.pos = 1
          /\ LET n == FlipBit(sent.frame[1], sent.bit)
             IN  /\ n \in 1..(sent.frame[1] - 1)
                 /\ sent.frame[n + 2] = Lrc(<< n >> \o SubSeq(sent.frame, 2, n + 1))

\* rejected flips: a flipped ERROR bit was answered with NAK, a flipped CMD
\* bit ended the exchange with no ACK
C23_Witness ==
    /\ sent.pos = 3 /\ sent.frame = << 3, 64, 0, 66, 1 >>
    /\ wire.nak = 1 /\ wire.ack = 0 /\ ~accepted.set /\ pc = "req"

\* the int five bytes are in little-endian two's complement
TwosComplement5(b) ==
    BigSub(FromBytes(b), IF b[5] >= 128 THEN Pow256(5) ELSE Big(0, 0))

InInt5Range(n) == ~BigLess(n, BigSub(Big(0, 0), Two39)) /\ BigLess(n, Two39)

\* the part of C24 about pack: for every n in -2**39 .. 2**39 - 1 pack gives
\* 5 bytes, n in little-endian two's complement, and unpack gives n back
Int5RoundTrip ==
    (method.name = "Int5.pack" /\ InInt5Range(method.value)) =>
        /\ result.set
        /\ Len(result.packed) = 5
        /\ \A i \in 1..5 : result.packed[i] \in 0..255
        /\ TwosComplement5(result.packed) = method.value
        /\ result.back = method.value

\* C24: for every integer n in -2**39 .. 2**39 - 1, int5.pack(n) is 5 bytes,
\* n in little-endian two's complement, and int5.unpack(int5.pack(n)) = n;
\* int5.unpack takes exactly 5 bytes: it returns no integer for a byte string
\* of another length.
C24_Int5 ==
    /\ Int5RoundTrip
    /\ (method.name = "Int5.unpack" /\ Len(method.value) # 5) => ~result.set

\* C25: an ask that writes anything writes the cleanup ENQ first; while the
\* cleanup probe runs nothing of the request frame is written and no response
\* is stored; the probe ends on NAK with nothing more written or read, and,
\* after ACK and STX, with the stale frame read and answered by one ACK (a
\* frame whose LEN byte does not arrive ends the ask); when the probe has
\* ended the next byte written is the ENQ of the exchange, and what ask
\* returns is the data of a frame read after the cleanup.
C25_Cleanup ==
    /\ [](/\ previous => (wire.req = 0 /\ ~accepted.set /\ ~response.set)
          /\ AskReturned =>
                /\ accepted.set
                /\ outcome.data = Slice(accepted.body, 2, Len(accepted.body)))
    /\ [][/\ (pc = "idle" /\ pc' # "idle") =>
                /\ pc' = "enq" /\ previous'
                /\ wire' = [enq |-> 1, req |-> 0, ack |-> 0, nak |-> 0]
          /\ previous =>
                \/ /\ pc' = "idle"
                   /\ wire'.req = 0
                   /\ outcome'.kind = "raised"
                   /\ pc = "resp" => outcome'.exc = "TypeError"
                \/ /\ previous'
                   /\ pc # "resp"
                   /\ wire'.req = 0
                \/ /\ ~previous'
                   /\ pc \in { "enq", "resp" }
                   /\ pc' = "enq"
                   /\ request' # None
                   /\ wire'.enq = Sat(wire.enq + 1)
                   /\ wire'.req = 0
                   /\ wire'.nak = wire.nak
                   /\ wire'.ack = IF pc = "resp" THEN Sat(wire.ack + 1)
                                  ELSE wire.ack
                   /\ ~accepted'.set /\ ~response'.set]_vars

\* the cleanup probe has drained a stale frame with one ACK, and ask has
\* returned the response to its own request
C25_Witness ==
    /\ AskReturned
    /\ wire = [enq |-> 2, req |-> 1, ack |-> 2, nak |-> 0]
    /\ dev = [frames |-> 1, verified |-> 1]

\* C26: when a response frame of full length with the command sent arrives
\* with an LRC byte other than XOR(LEN, CMD, ERROR, DATA), the host writes
\* NAK and no ACK for it, stores no response and writes the same request
\* frame again; when the device then acknowledges the request and delivers a
\* correct frame, the host writes ACK, and with error 0 in the frame ask
\* returns the data and the command of the correct frame.
C26_BadLrc ==
    /\ [][(pc = "resp" /\ dev.frames = 0) =>
             /\ wire'.nak = 1 /\ wire'.ack = 0
             /\ pc' = "req"
             /\ wire'.req = wire.req + 1
             /\ request' = request
             /\ ~accepted'.set /\ ~response'.set
             /\ outcome'.kind = "none"]_vars
    /\ []((outcome.op = "ask" /\ dev.frames = 2) =>
             /\ pc = "idle"
             /\ sent.pos = 0
             /\ accepted.set
             /\ << accepted.len >> \o accepted.body \o accepted.lrc = sent.frame
             /\ wire = [enq |-> 2, req |-> 2, ack |-> 1, nak |-> 1]
             /\ sent.frame[3] = 0 =>
                   /\ AskReturned
                   /\ outcome.command = << sent.frame[2] >>
                   /\ outcome.error = 0
                   /\ outcome.data = SubSeq(sent.frame, 4, Len(sent.frame) - 1))

\* a corrupted response was answered with NAK, the frame was written again
\* and ask returned the data of the correct frame
C26_Witness ==
    /\ AskReturned
    /\ wire = [enq |-> 2, req |-> 2, ack |-> 1, nak |-> 1]
    /\ dev = [frames |-> 2, verified |-> 1]
    /\ outcome.data = << 7 >> /\ outcome.error = 0

\* the frame the device sent last has fewer body bytes than its LEN
ShortFrame(f) == Len(f) >= 1 /\ Len(f) - 1 < f[1]

\* C27: whenever a response frame arrives with fewer body bytes than LEN,
\* be it the response to the request or a stale frame read by the cleanup
\* probe, the host writes NAK and no ACK for it and sends the request again.
C27_ShortFrame ==
    [][(pc = "resp" /\ ShortFrame(sent'.frame)) =>
          /\ wire'.nak = Sat(wire.nak + 1)
          /\ wire'.ack = wire.ack
          /\ pc' = "req" \/ outcome'.exc = "RecursionError"]_vars

\* C28: when a response frame of full length arrives whose first body byte
\* is not the command byte sent, the exchange ends with an error that is
\* neither retried nor answered: the host writes neither ACK nor NAK for the
\* frame, does not write the request again and stores no response.
C28_WrongCommand ==
    /\ [][pc = "resp" =>
             /\ sent'.frame[2] # command[1]
             /\ pc' = "idle"
             /\ outcome'.kind = "raised"
             /\ outcome'.exc = "AssertionError"
             /\ wire' = wire
             /\ request' = request
             /\ ~response'.set
             /\ ~accepted'.set]_vars
    /\ [](wire.ack = 0 /\ wire.nak = 0 /\ wire.req <= 1 /\ ~AskReturned)

\* ask has ended on the frame of another command, the LRC of the frame right
C28_Witness ==
    /\ AskRaised("AssertionError")
    /\ command = << 64 >>
    /\ sent.frame = << 3, 255, 0, 7, 251 >>
    /\ wire = [enq |-> 2, req |-> 1, ack |-> 0, nak |-> 0]
    /\ ~response.set

\* C29: when the read after the request frame and its one retry both return
\* nothing, the next byte the host writes is ENQ; when the device answers
\* that ENQ with ACK and then sends its response, the host reads it and ask
\* returns it, the request frame having been written once.
C29_SilentRequest ==
    /\ [][pc = "req" =>
             /\ pc' = "enq" /\ ~previous'
             /\ wire' = [wire EXCEPT !.enq = Sat(@ + 1)]
             /\ request' = request]_vars
    /\ [](/\ wire.req <= 1
          /\ wire.nak = 0
          /\ (outcome.op = "ask" /\ dev.verified >= 1 /\ accepted.body[2] = 0)
                => /\ AskReturned
                   /\ wire.req = 1
                   /\ outcome.error = 0
                   /\ outcome.data = SubSeq(accepted.body, 3, Len(accepted.body))
                   /\ outcome.command = << accepted.body[1] >>)

\* ask has returned the response it read after the second ENQ
C29_Witness ==
    /\ AskReturned
    /\ wire = [enq |-> 3, req |-> 1, ack |-> 1, nak |-> 0]
    /\ outcome.data = << 7 >> /\ outcome.error = 0
    /\ sent.frame = << 3 >> \o command \o << 0, 7 >>
                        \o << Lrc(<< 3 >> \o command \o << 0, 7 >>) >>

\* C30: on a line that answers every ENQ of the exchange with a byte other
\* than ACK and NAK, each such answer is counted, the count stays within
\* STX_LOOP_MAX, and the ask ends with a connection error.
C30_EnqRetryBound ==
    /\ [][(pc = "enq" /\ ~previous /\ pc' = "enq") =>
             /\ stx_loop' = stx_loop + 1
             /\ stx_loop' <= STX_LOOP_MAX]_vars
    /\ []((AskEnded /\ outcome.kind = "raised")
              => outcome.exc = "ConnectionError")

C22_OneExchangePerPort ==
    ~(/\ http.a \in Routes /\ pc # "idle"
      /\ http.b \in Routes /\ peer.pc # "idle")

\* C31: within one ask the counter that wait_STX compares with 10 is the
\* number of ENQ the host has written because it read a byte other than STX
\* where it waited for STX, whatever the device answered to those ENQ, and
\* that number stays within 10.
C31_ReprobesCounted ==
    (pc \in { "enq", "stx" } /\ ~previous)
        => /\ stx_loop = sent.pos
           /\ sent.pos <= STX_LOOP_MAX

\* C32: an ask that gets past the connection wait starts with no command,
\* parameters, request or response of the exchange before it; the ask with
\* quick=False that follows an ask with quick=True runs with the quick flag
\* off from its first ENQ on, so the ACK of its response is followed by the
\* flush and the guard sleep, and it closes the handle when it returns; the
\* request it writes and the record it returns are those of its own command.
C32_ClearedOnEntry ==
    /\ [][(calls' = calls + 1 /\ pc' = "enq") =>
             /\ command' = None /\ params' = None /\ request' = None
             /\ ~response'.set
             /\ previous']_vars
    /\ []((calls = 1 /\ pc # "idle") => (quick <=> args.command = 134))
    /\ []((calls = 2 /\ pc # "idle") =>
             /\ ~quick
             /\ pc \in { "req", "stx", "resp" } =>
                   /\ command = << args.command >>
                   /\ request = Frame(command, params)
                   /\ params = IF args.params = None /\ ~args.without_password
                               THEN password ELSE args.params)
    /\ []((calls = 2 /\ AskReturned) =>
             /\ conn = "closed"
             /\ outcome.command = command
             /\ command # << 134 >>
             /\ accepted.set /\ accepted.body[1] = command[1]
             /\ outcome.data = SubSeq(accepted.body, 3, Len(accepted.body)))

\* C32 as stated: every ask clears the command, the parameters, the request
\* and the response on entry.
C32_ClearedOnEveryEntry ==
    [][(calls' = calls + 1 /\ outcome'.op = "ask") =>
          /\ command' = None /\ params' = None /\ request' = None
          /\ ~response'.set]_vars

\* the second ask, not quick, has returned; it found the handle open, as the
\* quick ask before it left it
C32_Witness ==
    /\ calls = 2 /\ AskReturned /\ ~quick /\ ~opened
    /\ conn = "closed"
    /\ command = << 136 >>
    /\ wire = [enq |-> 2, req |-> 1, ack |-> 1, nak |-> 0]

\* the three tests of read_response on the bytes read, f = LEN, body, LRC
\* with n body bytes, for the command cmd
PassesChecks(f, n, cmd) ==
    /\ n = f[1]
    /\ n >= 1 /\ f[2] = cmd[1]
    /\ Len(f) = n + 2
    /\ f[n + 2] = Lrc(SubSeq(f, 1, n + 1))

\* C33: outside the clean-up probe the host writes ACK for a frame only when
\* as many body bytes were read as LEN says, the first of them is the command
\* byte sent and the LRC read is the XOR of LEN and the body; for a frame
\* that fails one of the three it writes no ACK and takes no response
\* from it.
C33_AckOnlyChecked ==
    [][(pc = "resp" /\ ~previous) =>
          /\ wire'.ack # wire.ack
                => PassesChecks(sent'.frame, sent'.pos, command)
          /\ ~PassesChecks(sent'.frame, sent'.pos, command)
                => /\ wire'.ack = wire.ack
                   /\ dev'.verified = dev.verified
                   /\ response' = response]_vars

\* a frame that passes the three tests has been read and acknowledged
C33_Witness ==
    /\ AskReturned /\ command = << 136 >>
    /\ sent.frame = << 3, 136, 0, 7, 140 >> /\ sent.pos = 3
    /\ wire = [enq |-> 2, req |-> 1, ack |-> 1, nak |-> 0]
    /\ accepted.body = << 136, 0, 7 >>

\* C34: after disconnect the session holds no serial handle, and a
\* disconnect called on a session without an open handle has not opened the
\* serial port.
C34_DisconnectIdempotent ==
    (outcome.op = "disconnect" /\ pc = "idle")
        => /\ conn = "closed"
           /\ ~opened

====
